---- MODULE Spec2Model ----
(***************************************************************************)
(* Model of the chunked FoeDB reader of src/assignment_2/ecb_scraper.py    *)
(* (_fetch_foe_db_data and its closures get_url, get_chunk and             *)
(* get_data_by_id) and of the related-publication decoder                  *)
(* (_parse_related_publication).                                           *)
(*                                                                         *)
(* Text is modelled as a sequence of one-character strings, so that the    *)
(* CSV tokenizer, the replace of \" by " and the JSON parser work on the   *)
(* characters as the library routines the code calls do.                   *)
(*                                                                         *)
(* Further parts: load_publications_from_db of the same file, the          *)
(* Publication dataclass, BaseScraper._request and parse_rss_articles of   *)
(* src/dbb_scraper.py, load_page_content of src/assignment_2/utils.py and  *)
(* _filter_related_urls of src/assignment_2_2/ecb_scraper.py, each with a  *)
(* specification of its own over the same variables.                       *)
(***************************************************************************)
EXTENDS Integers, Sequences, FiniteSets, TLC

(***************************************************************************)
(* Bounds of the model.                                                    *)
(***************************************************************************)
MaxFields == 12
MaxRecords == 6
MaxChunkSize == 2
MaxGroupSize == 2
MaxCalls == 3
MaxKids == 2

MaxCallers == 2

MaxReleases == 3

MaxAmount == 2

MaxExcess == 2

MaxDays == 1

(***************************************************************************)
(* Characters.                                                             *)
(***************************************************************************)
QUOTE == "\""
BSLASH == "\\"
COMMA == ","

Range(s) == {s[i] : i \in 1..Len(s)}

Min(a, b) == IF a < b THEN a ELSE b

(***************************************************************************)
(* csv.reader(io.StringIO(raw_data)) followed by next(reader), for a       *)
(* single-line text: the state machine of the excel dialect (delimiter     *)
(* comma, quotechar ", doublequote, no escapechar, not strict).  CsvScan   *)
(* returns the list of fields; the empty text has no row at all            *)
(* (StopIteration), which CsvRow reports as ok = FALSE.                    *)
(***************************************************************************)
RECURSIVE CsvScan(_, _, _, _, _)
CsvScan(raw, i, st, cur, fields) ==
    IF i > Len(raw) THEN Append(fields, cur)
    ELSE LET c == raw[i] IN
      CASE st = "START_FIELD" ->
             IF c = QUOTE THEN CsvScan(raw, i + 1, "IN_QUOTED_FIELD", cur, fields)
             ELSE IF c = COMMA THEN CsvScan(raw, i + 1, "START_FIELD", <<>>, Append(fields, cur))
             ELSE CsvScan(raw, i + 1, "IN_FIELD", Append(cur, c), fields)
        [] st = "IN_FIELD" ->
             IF c = COMMA THEN CsvScan(raw, i + 1, "START_FIELD", <<>>, Append(fields, cur))
             ELSE CsvScan(raw, i + 1, "IN_FIELD", Append(cur, c), fields)
        [] st = "IN_QUOTED_FIELD" ->
             IF c = QUOTE THEN CsvScan(raw, i + 1, "QUOTE_IN_QUOTED_FIELD", cur, fields)
             ELSE CsvScan(raw, i + 1, "IN_QUOTED_FIELD", Append(cur, c), fields)
        [] OTHER ->
             IF c = QUOTE THEN CsvScan(raw, i + 1, "IN_QUOTED_FIELD", Append(cur, c), fields)
             ELSE IF c = COMMA THEN CsvScan(raw, i + 1, "START_FIELD", <<>>, Append(fields, cur))
             ELSE CsvScan(raw, i + 1, "IN_FIELD", Append(cur, c), fields)

CsvRow(raw) ==
    IF raw = <<>> THEN [ok |-> FALSE, fields |-> <<>>]
    ELSE [ok |-> TRUE, fields |-> CsvScan(raw, 1, "START_FIELD", <<>>, <<>>)]

(***************************************************************************)
(* str.replace('\\"', '"'): every backslash-quote pair, left to right and  *)
(* without overlap, becomes a quote.                                       *)
(***************************************************************************)
RECURSIVE ReplaceFrom(_, _)
ReplaceFrom(s, i) ==
    IF i > Len(s) THEN <<>>
    ELSE IF s[i] = BSLASH /\ i < Len(s) /\ s[i + 1] = QUOTE
         THEN <<QUOTE>> \o ReplaceFrom(s, i + 2)
         ELSE <<s[i]>> \o ReplaceFrom(s, i + 1)

ReplaceEscapedQuotes(s) == ReplaceFrom(s, 1)

(***************************************************************************)
(* json.loads on a text without whitespace, over the characters            *)
(*   a 1 , " \ [ ] { } :                                                   *)
(* A value is a string, a number (a run of the digit 1), an array or an    *)
(* object; anything else, and any text left after the value, is a          *)
(* JSONDecodeError.  Parsed values are tagged: str, num, arr, obj.         *)
(***************************************************************************)
JsonFail == [ok |-> FALSE, v |-> <<>>, n |-> 0]

RECURSIVE JsonString(_, _, _)
JsonString(s, j, acc) ==
    IF j > Len(s) THEN JsonFail
    ELSE IF s[j] = QUOTE THEN [ok |-> TRUE, v |-> [t |-> "str", v |-> acc], n |-> j + 1]
    ELSE IF s[j] = BSLASH
         THEN IF j < Len(s) /\ s[j + 1] \in {QUOTE, BSLASH}
              THEN JsonString(s, j + 2, Append(acc, s[j + 1]))
              ELSE JsonFail
    ELSE JsonString(s, j + 1, Append(acc, s[j]))

RECURSIVE JsonDigits(_, _)
JsonDigits(s, j) == IF j <= Len(s) /\ s[j] = "1" THEN JsonDigits(s, j + 1) ELSE j

RECURSIVE JsonValue(_, _), JsonElements(_, _, _), JsonMembers(_, _, _)
JsonValue(s, i) ==
    IF i > Len(s) THEN JsonFail
    ELSE CASE s[i] = QUOTE -> JsonString(s, i + 1, <<>>)
           [] s[i] = "1" ->
                LET j == JsonDigits(s, i)
                IN [ok |-> TRUE, v |-> [t |-> "num", v |-> SubSeq(s, i, j - 1)], n |-> j]
           [] s[i] = "[" ->
                IF i < Len(s) /\ s[i + 1] = "]"
                THEN [ok |-> TRUE, v |-> [t |-> "arr", v |-> <<>>], n |-> i + 2]
                ELSE JsonElements(s, i + 1, <<>>)
           [] s[i] = "{" ->
                IF i < Len(s) /\ s[i + 1] = "}"
                THEN [ok |-> TRUE, v |-> [t |-> "obj", v |-> <<>>], n |-> i + 2]
                ELSE JsonMembers(s, i + 1, <<>>)
           [] OTHER -> JsonFail

JsonElements(s, j, acc) ==
    LET r == JsonValue(s, j) IN
    IF ~r.ok THEN JsonFail
    ELSE IF r.n <= Len(s) /\ s[r.n] = COMMA THEN JsonElements(s, r.n + 1, Append(acc, r.v))
    ELSE IF r.n <= Len(s) /\ s[r.n] = "]"
         THEN [ok |-> TRUE, v |-> [t |-> "arr", v |-> Append(acc, r.v)], n |-> r.n + 1]
    ELSE JsonFail

\* an object is kept as its list of <<key, value>> pairs in source order
JsonMembers(s, j, acc) ==
    IF ~(j <= Len(s) /\ s[j] = QUOTE) THEN JsonFail
    ELSE LET k == JsonString(s, j + 1, <<>>) IN
      IF ~k.ok THEN JsonFail
      ELSE IF ~(k.n <= Len(s) /\ s[k.n] = ":") THEN JsonFail
      ELSE LET r == JsonValue(s, k.n + 1) IN
        IF ~r.ok THEN JsonFail
        ELSE IF r.n <= Len(s) /\ s[r.n] = COMMA
             THEN JsonMembers(s, r.n + 1, Append(acc, <<k.v.v, r.v>>))
        ELSE IF r.n <= Len(s) /\ s[r.n] = "}"
             THEN [ok |-> TRUE, v |-> [t |-> "obj", v |-> Append(acc, <<k.v.v, r.v>>)],
                   n |-> r.n + 1]
        ELSE JsonFail

\* the value r parsed from the start of s is the result when it ends the text
WholeText(s, r) ==
    IF r.ok /\ r.n = Len(s) + 1 THEN [exc |-> "none", v |-> r.v]
    ELSE [exc |-> "JSONDecodeError", v |-> <<>>]

JsonLoads(s) == WholeText(s, JsonValue(s, 1))


(***************************************************************************)
(* _parse_related_publication.  An exception is modelled by its class      *)
(* name; "none" means the statement completed.                             *)
(***************************************************************************)
EmptyDict == <<>>

EmptyList == [t |-> "arr", v |-> <<>>]

EmptyObject == [t |-> "obj", v |-> <<>>]

\* json.loads(fields[k].replace('\\"', '"')) for the 0-based index k
FieldJson(fields, k) ==
    IF Len(fields) < k + 1 THEN [exc |-> "IndexError", v |-> <<>>]
    ELSE JsonLoads(ReplaceEscapedQuotes(fields[k + 1]))

\* try: ... except caught: <name> = default, applied to the outcome r of the try
TryExcept(r, caught, default) ==
    IF r.exc = "none" THEN r
    ELSE IF r.exc \in caught THEN [exc |-> "none", v |-> default]
    ELSE r

\* variant: the first inner except clause without IndexError
PdfCaught_OnlyJson == {"JSONDecodeError"}

\* the exception classes of the first inner except clause (line 297)
PdfCaught == {"JSONDecodeError", "IndexError"}

\* variant: the second inner except clause without JSONDecodeError
MetaCaught_OnlyIndex == {"IndexError"}

\* the exception classes of the second inner except clause (line 303)
MetaCaught == {"JSONDecodeError", "IndexError"}

\* try: pdf_urls = json.loads(fields[9]...) except (...): pdf_urls = []
PdfUrlsOf(fields) == TryExcept(FieldJson(fields, 9), PdfCaught, EmptyList)

\* try: metadata = json.loads(fields[10]...) except (...): metadata = {}
MetadataOf(fields) == TryExcept(FieldJson(fields, 10), MetaCaught, EmptyObject)

\* the number of leading fields the body reads without a handler of its own
KnownFields == 5

\* lines 306-316, after the two inner try statements ended as pdf and meta
PublicationDict(fields, pdf, meta) ==
    IF pdf.exc # "none" THEN [exc |-> pdf.exc, v |-> EmptyDict]
    ELSE IF meta.exc # "none" THEN [exc |-> meta.exc, v |-> EmptyDict]
    ELSE [exc |-> "none",
          v |-> [publicationId |-> fields[1],
                 timestamp |-> fields[2],
                 date |-> [year |-> fields[3], month |-> fields[4], day |-> fields[5]],
                 pdfUrls |-> pdf.v,
                 metadata |-> meta.v]]

\* lines 288-316 on the row the reader returned
ParseFields(row) ==
    IF ~row.ok THEN [exc |-> "StopIteration", v |-> EmptyDict]
    ELSE IF Len(row.fields) < KnownFields THEN [exc |-> "IndexError", v |-> EmptyDict]
    ELSE PublicationDict(row.fields, PdfUrlsOf(row.fields), MetadataOf(row.fields))

\* the body of the outer try: the exception it ends with and the dictionary
ParseBody(raw_data) == ParseFields(CsvRow(raw_data))

\* except Exception: return {}
OuterExcept(b) == IF b.exc = "none" THEN b.v ELSE EmptyDict

ParseRelatedPublication(raw_data) == OuterExcept(ParseBody(raw_data))

\* the truth value of a dictionary
Truthy(d) == DOMAIN d # {}

(***************************************************************************)
(* Raw store values are tagged: int (n), null, str and list (v).  The      *)
(* expansion of a relatedPublications / childrenPublication list keeps,    *)
(* in order, the decodings of its non-empty string elements that decode.   *)
(***************************************************************************)
IsStr(x) == x.t = "str"

IsList(x) == x.t = "list"

\* variant: the result of a failed decode is appended as well
KeepTruthy_Always(parsed_pub) == <<parsed_pub>>

\* if parsed_pub: parsed_publications.append(parsed_pub)
KeepTruthy(parsed_pub) == IF Truthy(parsed_pub) THEN <<parsed_pub>> ELSE <<>>

\* one round of the loop of line 237: what the element adds to the list
ParsedOf(pub) ==
    IF IsStr(pub) /\ pub.v # <<>> THEN KeepTruthy(ParseRelatedPublication(pub.v)) ELSE <<>>

RECURSIVE ParsePublications(_)
ParsePublications(value) ==
    IF value = <<>> THEN <<>>
    ELSE ParsedOf(Head(value)) \o ParsePublications(Tail(value))

(***************************************************************************)
(* The rows the decoder is tried on: n fields joined by commas, fields 9   *)
(* and 10 drawn from JsonTexts, field 0 optionally a quoted field that     *)
(* holds a comma.                                                          *)
(***************************************************************************)
RECURSIVE JoinComma(_)
JoinComma(fs) ==
    IF fs = <<>> THEN <<>>
    ELSE IF Len(fs) = 1 THEN fs[1]
    ELSE fs[1] \o <<COMMA>> \o JoinComma(Tail(fs))

T_EmptyArr == <<"[", "]">>
T_EmptyObj == <<"{", "}">>
T_NotJson == <<"a">>
T_Broken == <<"[">>
T_QuotedArr == <<QUOTE, "[", QUOTE, QUOTE, "a", QUOTE, QUOTE, ",", QUOTE, QUOTE, "1", QUOTE, QUOTE, "]", QUOTE>>
T_QuotedObj == <<QUOTE, "{", QUOTE, QUOTE, "a", QUOTE, QUOTE, ":", "1", "}", QUOTE>>
T_BslashArr == <<"[", BSLASH, QUOTE, "a", BSLASH, QUOTE, "]">>
T_QuotedBslashArr == <<QUOTE, "[", BSLASH, QUOTE, "a", BSLASH, QUOTE, "]", QUOTE>>

JsonTexts ==
    {<<>>, T_EmptyArr, T_EmptyObj, T_NotJson, T_Broken, T_QuotedArr, T_QuotedObj,
     T_BslashArr, T_QuotedBslashArr}

T_QuotedId == <<QUOTE, "a", ",", "a", QUOTE>>

\* field k (0-based) of a generated row
RowField(k, f0, f9, f10) ==
    CASE k = 0 -> f0
      [] k = 1 -> <<"1">>
      [] k = 2 -> <<"1", "1">>
      [] k = 3 -> <<"a", "1">>
      [] k = 4 -> <<"1", "a">>
      [] k = 9 -> f9
      [] k = 10 -> f10
      [] OTHER -> <<"a">>

MakeRow(n, f0, f9, f10) == JoinComma([k \in 1..n |-> RowField(k - 1, f0, f9, f10)])

RowPool ==
    {MakeRow(n, f0, f9, f10) :
        n \in 0..MaxFields, f0 \in {<<"a">>, T_QuotedId}, f9 \in JsonTexts, f10 \in JsonTexts}


(***************************************************************************)
(* The remote store.  A store is a record                                  *)
(*   versions : the document of versions.json, newest first                *)
(*   metadata : the document of metadata.json                              *)
(*   kids     : the list held by the publication-list field of the         *)
(*              records with an even sort id (the others hold null)        *)
(* Its records are laid out flat: record i, field j holds the raw value    *)
(* FlatValue(store, i, j); the chunk file of chunk c holds the values of   *)
(* the records c*chunk_size .. (c+1)*chunk_size - 1 that exist.            *)
(***************************************************************************)
PublicationFields == {"relatedPublications", "childrenPublication"}

IdField == "$foedb:id"

NullValue == [t |-> "null"]

FlatValue(store, i, j) ==
    LET header == store.metadata.header IN
    IF "rows" \in DOMAIN store THEN store.rows[i + 1][j + 1]
    ELSE IF header[j + 1] \in PublicationFields
    THEN IF i % 2 = 0 THEN [t |-> "list", v |-> store.kids] ELSE NullValue
    ELSE [t |-> "int", n |-> i * Len(header) + j]

NumChunks(store) ==
    LET m == store.metadata IN (m.total_records + m.chunk_size - 1) \div m.chunk_size

ChunkDocument(store, c) ==
    LET m == store.metadata
        h == Len(m.header)
        first == c * m.chunk_size
        n == Min(m.chunk_size, m.total_records - first)
    IN  [k \in 1..(n * h) |-> FlatValue(store, first + (k - 1) \div h, (k - 1) % h)]

IndexDocument(store, name) ==
    <<[value |-> "a", total_records |-> store.metadata.total_records,
       first_sort_id_per_chunk |-> <<0>>, last_sort_id_per_chunk |-> <<0>>],
      [value |-> "b", total_records |-> 0,
       first_sort_id_per_chunk |-> <<>>, last_sort_id_per_chunk |-> <<>>]>>

(***************************************************************************)
(* The HTTP server of the store: the document at a URL, or NotFound.       *)
(***************************************************************************)
NotFound == [found |-> FALSE, doc |-> <<>>]

Found(d) == [found |-> TRUE, doc |-> d]

IsVersion(store, url) ==
    \E i \in 1..Len(store.versions) :
        store.versions[i].version = url.version /\ store.versions[i].hash = url.hash

Serve(store, url) ==
    CASE url.request = "versions" -> Found(store.versions)
      [] url.request = "metadata" ->
           IF IsVersion(store, url) THEN Found(store.metadata) ELSE NotFound
      [] url.request = "index" ->
           IF IsVersion(store, url) /\ url.index \in Range(store.metadata.indexes)
           THEN Found(IndexDocument(store, url.index)) ELSE NotFound
      [] url.request = "data" ->
           IF /\ IsVersion(store, url)
              /\ url.chunk \in 0..(NumChunks(store) - 1)
              /\ url.group = url.chunk \div store.metadata.chunk_group_size
           THEN Found(ChunkDocument(store, url.chunk)) ELSE NotFound
      [] OTHER -> NotFound

(***************************************************************************)
(* _fetch_foe_db_data: configuration and closures.                         *)
(***************************************************************************)
None == "None"

config == [host |-> "host", database_name |-> "publications.en", database_version |-> None]

\* get_url: a URL is the record of the parts the f-string is built from
GetUrl(loaded_db, request, key, value) ==
    CASE request = "versions" ->
           [request |-> "versions", host |-> config.host, name |-> config.database_name]
      [] request = "metadata" ->
           [request |-> "metadata", host |-> config.host, name |-> config.database_name,
            version |-> loaded_db.database_version, hash |-> loaded_db.database_hash]
      [] request = "index" ->
           [request |-> "index", host |-> config.host, name |-> config.database_name,
            version |-> loaded_db.database_version, hash |-> loaded_db.database_hash,
            index |-> key]
      [] request = "data" ->
           [request |-> "data", host |-> config.host, name |-> config.database_name,
            version |-> loaded_db.database_version, hash |-> loaded_db.database_hash,
            group |-> key, chunk |-> value]

\* what the network does to one fetch: the server answers, every attempt of
\* load_page_content fails, or the body is not JSON
NetOutcomes == {"ok", "down", "malformed"}

\* fetch_json: load_page_content raises Exception after its last attempt
\* (also for a URL the server does not have), json.loads raises
\* JSONDecodeError
FetchJson(store, url, net) ==
    LET page == Serve(store, url) IN
    IF net = "down" \/ ~page.found THEN [exc |-> "Exception", doc |-> <<>>]
    ELSE IF net = "malformed" THEN [exc |-> "JSONDecodeError", doc |-> <<>>]
    ELSE [exc |-> "none", doc |-> page.doc]

ChunkId(sort_id, chunk_size) == sort_id \div chunk_size

\* variant: % written for //
ChunkGroupId_Mod(chunk_id, chunk_group_size) == chunk_id % chunk_group_size

ChunkGroupId(chunk_id, chunk_group_size) == chunk_id \div chunk_group_size

\* variant: the chunk is stored under the key 0
CacheFetched_WrongKey(chunk_cache, chunk_id, url, f) ==
    IF f.exc # "none"
    THEN [exc |-> f.exc, chunk |-> <<>>, cache |-> chunk_cache, fetched |-> <<url>>]
    ELSE [exc |-> "none", chunk |-> f.doc, cache |-> (0 :> f.doc) @@ chunk_cache,
          fetched |-> <<url>>]

\* line 204 for the outcome f of fetch_json(url): the assignment to the
\* cache happens only when fetch_json returned
CacheFetched(chunk_cache, chunk_id, url, f) ==
    IF f.exc # "none"
    THEN [exc |-> f.exc, chunk |-> <<>>, cache |-> chunk_cache, fetched |-> <<url>>]
    ELSE [exc |-> "none", chunk |-> f.doc, cache |-> (chunk_id :> f.doc) @@ chunk_cache,
          fetched |-> <<url>>]

\* lines 203-204
FetchChunk(store, loaded_db, chunk_cache, chunk_id, url, net) ==
    CacheFetched(chunk_cache, chunk_id, url, FetchJson(store, url, net))

ChunkUrl(loaded_db, chunk_id) ==
    GetUrl(loaded_db, "data",
           ChunkGroupId(chunk_id, loaded_db.metadata.chunk_group_size), chunk_id)

\* variant: the cache is written but never consulted
GetChunk_NoLookup(store, loaded_db, chunk_cache, chunk_id, net) ==
    FetchChunk(store, loaded_db, chunk_cache, chunk_id, ChunkUrl(loaded_db, chunk_id), net)

\* get_chunk: the chunk, the cache afterwards and the URLs it fetched
GetChunk(store, loaded_db, chunk_cache, chunk_id, net) ==
    IF chunk_id \notin DOMAIN chunk_cache
    THEN FetchChunk(store, loaded_db, chunk_cache, chunk_id, ChunkUrl(loaded_db, chunk_id),
                    net)
    ELSE [exc |-> "none", chunk |-> chunk_cache[chunk_id], cache |-> chunk_cache,
          fetched |-> <<>>]

\* chunk[start:end] of a Python list, 0-based and clipped to the list
Slice(chunk, start, end) == SubSeq(chunk, start + 1, Min(end, Len(chunk)))

\* variant: // written for %
SliceStart_Div(sort_id, chunk_size, header_len) == (sort_id \div chunk_size) * header_len

SliceStart(sort_id, chunk_size, header_len) == (sort_id % chunk_size) * header_len

\* the value stored under one header field (lines 231-243)
FieldValue(loaded_db, field_name, raw) ==
    IF "loaded_maps" \in DOMAIN loaded_db /\ field_name \in DOMAIN loaded_db.loaded_maps
    THEN loaded_db.loaded_maps[field_name].index[raw.n + 1]
    ELSE IF field_name \in PublicationFields /\ IsList(raw)
         THEN ParsePublications(raw.v)
         ELSE raw

\* the dictionary built from the slice; a later header entry of the same
\* name overwrites an earlier one, "$foedb:id" is written last
LastIndexOf(header, field_name) ==
    CHOOSE i \in 1..Len(header) :
        header[i] = field_name /\ \A j \in (i + 1)..Len(header) : header[j] # field_name

\* variant: the id field holds the position inside the chunk
BuildRecord_OffsetAsId(loaded_db, header, data, sort_id) ==
    [f \in Range(header) \cup {IdField} |->
        IF f = IdField THEN sort_id % loaded_db.metadata.chunk_size
        ELSE FieldValue(loaded_db, f, data[LastIndexOf(header, f)])]

BuildRecord(loaded_db, header, data, sort_id) ==
    [f \in Range(header) \cup {IdField} |->
        IF f = IdField THEN sort_id
        ELSE FieldValue(loaded_db, f, data[LastIndexOf(header, f)])]

\* lines 224-246 for the outcome c of get_chunk
Assemble(loaded_db, sort_id, c) ==
    LET header == loaded_db.metadata.header
        start == SliceStart(sort_id, loaded_db.metadata.chunk_size, Len(header))
        end == start + Len(header)
        data == Slice(c.chunk, start, end)
    IN  IF c.exc # "none"
        THEN [exc |-> c.exc, result |-> <<>>, cache |-> c.cache, fetched |-> c.fetched]
        ELSE IF Len(data) < Len(header)
        THEN [exc |-> "IndexError", result |-> <<>>, cache |-> c.cache, fetched |-> c.fetched]
        ELSE [exc |-> "none", result |-> BuildRecord(loaded_db, header, data, sort_id),
              cache |-> c.cache, fetched |-> c.fetched]

\* get_data_by_id
GetDataById(store, loaded_db, chunk_cache, sort_id, net) ==
    Assemble(loaded_db, sort_id,
             GetChunk(store, loaded_db, chunk_cache,
                      ChunkId(sort_id, loaded_db.metadata.chunk_size), net))

(***************************************************************************)
(* The stores and lists the model is run on.                               *)
(***************************************************************************)
GoodRow == MakeRow(11, <<"a">>, T_QuotedArr, T_QuotedObj)

DefaultedRow == MakeRow(6, T_QuotedId, <<>>, <<>>)

ShortRow == MakeRow(3, <<"a">>, <<>>, <<>>)

StrValue(text) == [t |-> "str", v |-> text]

KidElems == {StrValue(GoodRow), StrValue(DefaultedRow), StrValue(ShortRow), StrValue(<<>>),
             [t |-> "int", n |-> 1]}

SeqsUpTo(S, n) == UNION {[1..k -> S] : k \in 0..n}

KidsPool == SeqsUpTo(KidElems, MaxKids)

TwoVersions == <<[version |-> "v2", hash |-> "h2"], [version |-> "v1", hash |-> "h1"]>>

PlainHeader == <<"id", "title">>

PublicationHeader == <<"id", "childrenPublication", "title">>

MetadataPool(headers, group_sizes, index_lists) ==
    [chunk_size : 1..MaxChunkSize, chunk_group_size : group_sizes, header : headers,
     total_records : 0..MaxRecords, indexes : index_lists]

\* metadata.loaded_maps of a store with a dictionary-encoded title column:
\* entry k of the index is the decoded value of the raw value k
LoadedMaps ==
    [title |-> [index |-> [k \in 1..(2 * (MaxRecords + 2)) |-> [t |-> "int", n |-> 0 - k]]]]

MappedMetadataPool ==
    {m @@ [loaded_maps |-> LoadedMaps] : m \in MetadataPool({PlainHeader}, {1}, {<<>>})}

StorePool ==
    [versions : {<<>>, TwoVersions},
     metadata : MetadataPool({PlainHeader}, 1..MaxGroupSize, {<<>>, <<"type">>}),
     kids : {<<>>}]
    \cup
    [versions : {TwoVersions},
     metadata : MetadataPool({PublicationHeader}, {1}, {<<>>}),
     kids : KidsPool]
    \cup
    [versions : {TwoVersions}, metadata : MappedMetadataPool, kids : {<<>>}]

(***************************************************************************)
(* State.                                                                  *)
(***************************************************************************)
VARIABLES
    store,                 \* the remote store (never changes)
    amount_to_fetch,       \* argument of _fetch_foe_db_data
    pc,                    \* position in _fetch_foe_db_data, or in the decoder run
    loaded_db,             \* dictionary loaded_db
    chunk_cache,           \* dictionary chunk_cache
    index_i,               \* number of indexes loaded by the loop of line 256
    all_items,             \* records resolved so far
    result,                \* the list returned
    error,                 \* class of the exception caught at line 277, or "none"
    fetch_log,             \* every URL handed to fetch_json, in order
    calls,                 \* history: the calls of get_data_by_id
    raw_data,              \* argument of _parse_related_publication
    value,                 \* a publication list handed to the expansion
    parsed_pub,            \* result of _parse_related_publication
    parsed_publications,   \* result of the expansion
    callers,               \* the callers of get_data_by_id that run side by side
    update_type,           \* argument of load_publications_from_db
    db_amount,             \* argument amount_to_fetch of load_publications_from_db
    matching_releases,     \* list matching_releases of _load_publications_db
    publications,          \* the list load_publications_from_db returns
    load_error,            \* class of the exception it raises, or "none"
    import_time,           \* when dbb_scraper was imported (PAST_TOLERANCE is set then)
    now,                   \* datetime.now() as _validate_date reads it
    web_title,             \* arguments of Publication(...)
    published_at,
    web_url,
    related_urls,
    constructed,           \* the outcome of Publication(...)
    retries,               \* argument retries of BaseScraper._request
    expected,              \* argument expected of BaseScraper._request
    request_log,           \* the requests sent and the waits made, in order
    response,              \* what the call returned or raised
    attempt,               \* loop variable attempt of load_page_content
    feed,                  \* feed.entries as parse_rss_articles receives them
    articles,              \* what parse_rss_articles returned or raised
    urls,                  \* argument urls of _filter_related_urls
    filtered               \* the list it returned

vars == <<store, amount_to_fetch, pc, loaded_db, chunk_cache, index_i, all_items, result,
          error, fetch_log, calls, raw_data, value, parsed_pub, parsed_publications,
          callers, update_type, db_amount, matching_releases, publications, load_error,
          import_time, now, web_title, published_at, web_url, related_urls, constructed,
          retries, expected, request_log, response, attempt, feed, articles, urls, filtered>>

publication_vars ==
    <<import_time, now, web_title, published_at, web_url, related_urls, constructed>>

load_vars == <<update_type, db_amount, matching_releases, publications, load_error>>

scraper_vars == <<retries, expected, request_log, response, attempt, feed, articles, urls,
                  filtered>>

request_vars == <<retries, expected, request_log, response, attempt>>

decoder_vars == <<raw_data, value, parsed_pub, parsed_publications>>

session_vars == <<store, amount_to_fetch, loaded_db, chunk_cache, index_i, all_items, result,
                  error, fetch_log, calls>>

\* what an action of the session, or of the decoder run, leaves alone
beside_session == <<decoder_vars, callers, load_vars, publication_vars, scraper_vars>>

beside_decoder == <<session_vars, callers, load_vars, publication_vars, scraper_vars>>

\* a caller that has not called yet
Callers == 1..MaxCallers

IdleCaller == [pc |-> "idle", sort_id |-> 0, cached |-> FALSE, fetches |-> 0, result |-> <<>>]

NoCallers == callers = [t \in Callers |-> IdleCaller]

\* Publication(...) has not been called
NoPublication ==
    /\ import_time = 0
    /\ now = 0
    /\ web_title = NullValue
    /\ published_at = NullValue
    /\ web_url = NullValue
    /\ related_urls = NullValue
    /\ constructed = [exc |-> "none"]

\* load_publications_from_db has not been called
NoLoad ==
    /\ update_type = "REGULATION"
    /\ db_amount = 0
    /\ matching_releases = <<>>
    /\ publications = <<>>
    /\ load_error = "none"

\* no request has been made
NoScraper ==
    /\ retries = 0
    /\ expected = 200
    /\ request_log = <<>>
    /\ response = [exc |-> "none"]
    /\ attempt = 0
    /\ feed = <<>>
    /\ articles = [exc |-> "none"]
    /\ urls = <<>>
    /\ filtered = <<>>

InitSession ==
    /\ store \in StorePool
    /\ pc = "versions"
    /\ loaded_db = <<>>
    /\ chunk_cache = <<>>
    /\ index_i = 0
    /\ all_items = <<>>
    /\ result = <<>>
    /\ error = "none"
    /\ fetch_log = <<>>
    /\ calls = <<>>
    /\ raw_data = <<>>
    /\ value = <<>>
    /\ parsed_pub = <<>>
    /\ parsed_publications = <<>>
    /\ NoCallers
    /\ NoScraper
    /\ NoLoad
    /\ NoPublication

\* a call _fetch_foe_db_data(amount_to_fetch = n)
Init ==
    /\ InitSession
    /\ amount_to_fetch \in (-1)..(MaxRecords + 1)

\* variant: the records resolved before the failure are returned
Fail_KeepItems(exc) ==
    /\ pc' = "done"
    /\ error' = exc
    /\ result' = all_items

\* except Exception as e: return []
Fail(exc) ==
    /\ pc' = "done"
    /\ error' = exc
    /\ result' = <<>>

\* line 250: config["database_version"] or versions[0]["version"]
SelectedVersion(versions) ==
    IF config.database_version # None THEN config.database_version ELSE versions[1].version

\* variant: the hash of the oldest entry
SelectedHash_Last(versions) == versions[Len(versions)].hash

\* line 251
SelectedHash(versions) == versions[1].hash

\* lines 249-251
FetchVersions ==
    /\ pc = "versions"
    /\ \E net \in NetOutcomes :
         LET url == GetUrl(loaded_db, "versions", None, None)
             f == FetchJson(store, url, net)
         IN  /\ fetch_log' = Append(fetch_log, url)
             /\ IF f.exc # "none" THEN Fail(f.exc) /\ UNCHANGED loaded_db
                ELSE IF f.doc = <<>> THEN Fail("IndexError") /\ UNCHANGED loaded_db
                ELSE /\ loaded_db' = [database_version |-> SelectedVersion(f.doc),
                                      database_hash |-> SelectedHash(f.doc)]
                     /\ pc' = "metadata"
                     /\ UNCHANGED <<error, result>>
    /\ UNCHANGED <<store, amount_to_fetch, chunk_cache, index_i, all_items, calls>>
    /\ UNCHANGED beside_session

\* variant: the metadata is loaded again
AfterMetadata_Reload(indexes) == "metadata"

\* where the run continues once the metadata is stored: in the loop of line
\* 256 when there is an index to load, else at line 270
AfterMetadata(indexes) == IF indexes = <<>> THEN "items" ELSE "indexes"

\* lines 252-253
FetchMetadata ==
    /\ pc = "metadata"
    /\ \E net \in NetOutcomes :
         LET url == GetUrl(loaded_db, "metadata", None, None)
             f == FetchJson(store, url, net)
         IN  /\ fetch_log' = Append(fetch_log, url)
             /\ IF f.exc # "none" THEN Fail(f.exc) /\ UNCHANGED loaded_db
                ELSE /\ loaded_db' = [metadata |-> f.doc, indexes |-> <<>>] @@ loaded_db
                     /\ pc' = AfterMetadata(f.doc.indexes)
                     /\ UNCHANGED <<error, result>>
    /\ UNCHANGED <<store, amount_to_fetch, chunk_cache, index_i, all_items, calls>>
    /\ UNCHANGED beside_session

\* the descriptor dictionary built from one index.json (lines 258-267)
IndexDescriptors(index_values) ==
    [v \in {index_values[i].value : i \in 1..Len(index_values)} |->
        LET idx == CHOOSE i \in 1..Len(index_values) :
                       /\ index_values[i].value = v
                       /\ \A j \in (i + 1)..Len(index_values) : index_values[j].value # v
            index_value == index_values[idx]
        IN  [index_value_id |-> idx - 1,
             total_records |-> index_value.total_records,
             first_sort_id_per_chunk |-> index_value.first_sort_id_per_chunk,
             last_sort_id_per_chunk |-> index_value.last_sort_id_per_chunk,
             number_of_chunks |-> Len(index_value.first_sort_id_per_chunk),
             sort_ids |-> <<>>]]

\* one round of the loop of lines 256-267
FetchIndex ==
    /\ pc = "indexes"
    /\ \E net \in NetOutcomes :
         LET index == loaded_db.metadata.indexes[index_i + 1]
             url == GetUrl(loaded_db, "index", index, None)
             f == FetchJson(store, url, net)
         IN  /\ fetch_log' = Append(fetch_log, url)
             /\ IF f.exc # "none" THEN Fail(f.exc) /\ UNCHANGED <<loaded_db, index_i>>
                ELSE /\ loaded_db' = [loaded_db EXCEPT
                                        !.indexes = (index :> IndexDescriptors(f.doc)) @@ @]
                     /\ index_i' = index_i + 1
                     /\ pc' = IF index_i + 1 = Len(loaded_db.metadata.indexes)
                              THEN "items" ELSE "indexes"
                     /\ UNCHANGED <<error, result>>
    /\ UNCHANGED <<store, amount_to_fetch, chunk_cache, all_items, calls>>
    /\ UNCHANGED beside_session

\* variant: max written for min
EndIdx_Max(amount, metadata) ==
    IF amount > metadata.total_records THEN amount ELSE metadata.total_records

\* line 271
EndIdx(amount, metadata) == Min(amount, metadata.total_records)

\* the effect of a call get_data_by_id(sort_id) that ended as r
Called(sort_id, r) ==
    /\ chunk_cache' = r.cache
    /\ fetch_log' = fetch_log \o r.fetched
    /\ calls' = Append(calls, [sort_id |-> sort_id, exc |-> r.exc, fetched |-> r.fetched,
                               cached |-> DOMAIN chunk_cache, result |-> r.result])
    /\ IF r.exc # "none" THEN Fail(r.exc) /\ UNCHANGED all_items
       ELSE /\ all_items' = Append(all_items, r.result)
            /\ UNCHANGED <<pc, error, result>>
    /\ UNCHANGED <<store, amount_to_fetch, loaded_db, index_i>>
    /\ UNCHANGED beside_session

\* one call get_data_by_id(sort_id) as the list comprehension of line 272 makes it
CallGetDataById(sort_id, net) ==
    Called(sort_id, GetDataById(store, loaded_db, chunk_cache, sort_id, net))

\* the next element of [get_data_by_id(idx) for idx in range(end_idx)]
FetchItem ==
    /\ pc = "items"
    /\ Len(all_items) < EndIdx(amount_to_fetch, loaded_db.metadata)
    /\ \E net \in NetOutcomes : CallGetDataById(Len(all_items), net)

\* lines 273-275
ReturnItems ==
    /\ pc = "items"
    /\ Len(all_items) >= EndIdx(amount_to_fetch, loaded_db.metadata)
    /\ pc' = "done"
    /\ result' = all_items
    /\ UNCHANGED <<store, amount_to_fetch, loaded_db, chunk_cache, index_i, all_items, error,
                   fetch_log, calls>>
    /\ UNCHANGED beside_session

Next == FetchVersions \/ FetchMetadata \/ FetchIndex \/ FetchItem \/ ReturnItems

Spec == Init /\ [][Next]_vars

(***************************************************************************)
(* get_data_by_id called with any argument, in any order, after the        *)
(* metadata is loaded: the closure as a caller other than the list         *)
(* comprehension would use it.  An exception still ends the session.       *)
(***************************************************************************)
SortIds(metadata) == (-1)..(metadata.total_records + 1)

ResolveStores ==
    {s \in StorePool :
        /\ s.versions # <<>>
        /\ s.kids \in {<<>>, <<StrValue(ShortRow), StrValue(GoodRow)>>}}

InitResolve ==
    /\ InitSession
    /\ store \in ResolveStores
    /\ amount_to_fetch = 0

ResolveAny ==
    /\ pc = "items"
    /\ Len(calls) < MaxCalls
    /\ \E sort_id \in SortIds(loaded_db.metadata), net \in NetOutcomes :
         CallGetDataById(sort_id, net)

NextResolve == FetchVersions \/ FetchMetadata \/ FetchIndex \/ ResolveAny

SpecResolve == InitResolve /\ [][NextResolve]_vars

(***************************************************************************)
(* The decoder and the list expansion applied to given inputs.             *)
(***************************************************************************)
ContextLists == {<<>>} \cup {<<e>> : e \in KidElems}

InitDecode ==
    /\ pc = "decode"
    /\ raw_data \in RowPool
    /\ \E before \in ContextLists, after \in ContextLists :
         value = before \o <<StrValue(raw_data)>> \o after
    /\ parsed_pub = <<>>
    /\ parsed_publications = <<>>
    /\ NoCallers
    /\ NoScraper
    /\ NoLoad
    /\ NoPublication
    /\ store = [versions |-> <<>>,
                metadata |-> [chunk_size |-> 1, chunk_group_size |-> 1, header |-> <<>>,
                              total_records |-> 0, indexes |-> <<>>],
                kids |-> <<>>]
    /\ amount_to_fetch = 0
    /\ loaded_db = <<>>
    /\ chunk_cache = <<>>
    /\ index_i = 0
    /\ all_items = <<>>
    /\ result = <<>>
    /\ error = "none"
    /\ fetch_log = <<>>
    /\ calls = <<>>

\* parsed_pub = _parse_related_publication(pub)
ParseRow ==
    /\ pc = "decode"
    /\ parsed_pub' = ParseRelatedPublication(raw_data)
    /\ pc' = "expand"
    /\ UNCHANGED <<raw_data, value, parsed_publications>>
    /\ UNCHANGED beside_decoder

\* lines 236-242 applied to the list
ExpandList ==
    /\ pc = "expand"
    /\ parsed_publications' = ParsePublications(value)
    /\ pc' = "decoded"
    /\ UNCHANGED <<raw_data, value, parsed_pub>>
    /\ UNCHANGED beside_decoder

NextDecode == ParseRow \/ ExpandList

SpecDecode == InitDecode /\ [][NextDecode]_vars



(***************************************************************************)
(* get_chunk entered by several callers at once.  The closures share       *)
(* loaded_db and chunk_cache; a caller can be suspended between any two    *)
(* statements, and is while fetch_json waits for the network.              *)
(***************************************************************************)
ConcurrentStores ==
    {s \in StorePool :
        /\ s.versions # <<>>
        /\ s.metadata.header = PlainHeader
        /\ s.metadata.chunk_group_size = 1
        /\ s.metadata.total_records \in 1..(MaxChunkSize + 1)
        /\ "loaded_maps" \notin DOMAIN s.metadata}

InitConcurrent ==
    /\ InitSession
    /\ store \in ConcurrentStores
    /\ amount_to_fetch = 0

CallerChunk(t) == ChunkId(callers[t].sort_id, loaded_db.metadata.chunk_size)

\* variant: the cache is never taken as holding the chunk
NeedsFetch_Always(cache, chunk_id) == TRUE

\* line 202
NeedsFetch(cache, chunk_id) == chunk_id \notin DOMAIN cache

caller_frame == <<store, amount_to_fetch, pc, loaded_db, index_i, all_items, result, error,
                  calls, decoder_vars, load_vars, publication_vars, scraper_vars>>

\* get_data_by_id(sort_id) is called: lines 221-222
StartCall(t) ==
    /\ pc = "items"
    /\ callers[t].pc = "idle"
    /\ \E sort_id \in 0..(loaded_db.metadata.total_records - 1) :
         callers' = [callers EXCEPT ![t].pc = "check", ![t].sort_id = sort_id]
    /\ UNCHANGED <<caller_frame, chunk_cache, fetch_log>>

\* line 202
CheckCache(t) ==
    /\ callers[t].pc = "check"
    /\ callers' = [callers EXCEPT
                     ![t].cached = CallerChunk(t) \in DOMAIN chunk_cache,
                     ![t].pc = IF NeedsFetch(chunk_cache, CallerChunk(t))
                               THEN "fetch" ELSE "assemble"]
    /\ UNCHANGED <<caller_frame, chunk_cache, fetch_log>>

\* lines 203-204: the request of fetch_json goes out
SendFetch(t) ==
    /\ callers[t].pc = "fetch"
    /\ fetch_log' = Append(fetch_log, ChunkUrl(loaded_db, CallerChunk(t)))
    /\ callers' = [callers EXCEPT ![t].pc = "receive", ![t].fetches = @ + 1]
    /\ UNCHANGED <<caller_frame, chunk_cache>>

\* the effect of the outcome r of line 204 on caller t
Received(t, r) ==
    /\ chunk_cache' = r.cache
    /\ callers' = [callers EXCEPT ![t].pc = IF r.exc = "none" THEN "assemble" ELSE "failed"]
    /\ UNCHANGED <<caller_frame, fetch_log>>

\* line 204: fetch_json returns or raises, the chunk is stored
ReceiveFetch(t) ==
    /\ callers[t].pc = "receive"
    /\ \E net \in NetOutcomes :
         Received(t, FetchChunk(store, loaded_db, chunk_cache, CallerChunk(t),
                                ChunkUrl(loaded_db, CallerChunk(t)), net))

\* the effect of the outcome r of lines 205-246 on caller t
Assembled(t, r) ==
    /\ callers' = [callers EXCEPT ![t].pc = IF r.exc = "none" THEN "returned" ELSE "failed",
                                  ![t].result = r.result]
    /\ UNCHANGED <<caller_frame, chunk_cache, fetch_log>>

\* line 205 and lines 224-246
AssembleCall(t) ==
    /\ callers[t].pc = "assemble"
    /\ Assembled(t, Assemble(loaded_db, callers[t].sort_id,
                             [exc |-> "none", chunk |-> chunk_cache[CallerChunk(t)],
                              cache |-> chunk_cache, fetched |-> <<>>]))

NextConcurrent ==
    \/ FetchVersions
    \/ FetchMetadata
    \/ FetchIndex
    \/ \E t \in Callers : StartCall(t)
    \/ \E t \in Callers : CheckCache(t)
    \/ \E t \in Callers : SendFetch(t)
    \/ \E t \in Callers : ReceiveFetch(t)
    \/ \E t \in Callers : AssembleCall(t)

SpecConcurrent == InitConcurrent /\ [][NextConcurrent]_vars

(***************************************************************************)
(* load_publications_from_db: the read of the store, the selection of the  *)
(* releases of one type and their conversion to publications.              *)
(***************************************************************************)
UPDATE_TYPE_REGULATION == "REGULATION"

UPDATE_TYPE_PRESS_RELEASE == "PRESS_RELEASE"

NEWS_TYPE_PRESS_RELEASE == 1

NEWS_TYPE_LETTER_TO_MEPS == 18

\* the members of RegUpdateTypes(str, Enum): a member equals a string
\* exactly when its value does
REGULATION == "regulation"

NEWS == "news"

\* the amount _load_publications_db hands to _fetch_foe_db_data (line 106)
DbFetchAmount == 5000

\* line 101
PubType(type) ==
    IF type = UPDATE_TYPE_REGULATION THEN NEWS_TYPE_LETTER_TO_MEPS ELSE NEWS_TYPE_PRESS_RELEASE

IntValue(k) == [t |-> "int", n |-> k]

\* the loop of lines 109-113
RECURSIVE MatchLoop(_, _, _, _)
MatchLoop(releases, pub_type, amount, matching) ==
    IF releases = <<>> THEN matching
    ELSE IF Head(releases)["type"] # IntValue(pub_type)
    THEN MatchLoop(Tail(releases), pub_type, amount, matching)
    ELSE IF Len(matching) + 1 >= amount THEN Append(matching, Head(releases))
    ELSE MatchLoop(Tail(releases), pub_type, amount, Append(matching, Head(releases)))

BaseUrl == "base_url"

Raised(exc) == [exc |-> exc, v |-> <<>>]

Done(v) == [exc |-> "none", v |-> v]

\* urljoin(REGULATOR_ECB["base_url"], x) for a parsed JSON value or a raw
\* string x: a false value gives the base, any other value that is not a
\* string raises TypeError
UrlJoin(x) ==
    IF x.v = <<>> THEN Done([base |-> BaseUrl, ref |-> <<>>])
    ELSE IF x.t = "str" THEN Done([base |-> BaseUrl, ref |-> x.v])
    ELSE Raised("TypeError")

\* the values "for pdf_url in pub['pdfUrls']" runs over
IterJson(j) ==
    CASE j.t = "arr" -> Done(j.v)
      [] j.t = "str" -> Done([i \in 1..Len(j.v) |-> [t |-> "str", v |-> <<j.v[i]>>]])
      [] j.t = "obj" -> Done([i \in 1..Len(j.v) |-> [t |-> "str", v |-> j.v[i][1]]])
      [] OTHER -> Raised("TypeError")

RECURSIVE JoinEach(_, _)
JoinEach(items, acc) ==
    IF items.exc # "none" THEN items
    ELSE IF items.v = <<>> THEN Done(acc)
    ELSE IF UrlJoin(Head(items.v)).exc # "none" THEN Raised("TypeError")
    ELSE JoinEach(Done(Tail(items.v)), Append(acc, UrlJoin(Head(items.v)).v))

\* lines 125-129; childrenPublication holds the expanded list
RECURSIVE RelatedUrls(_, _)
RelatedUrls(children, acc) ==
    IF acc.exc # "none" \/ children = <<>> THEN acc
    ELSE RelatedUrls(Tail(children), JoinEach(IterJson(Head(children).pdfUrls), acc.v))

\* _create_publication (lines 38-46)
CreatePublication(title, published, url, type, category, related) ==
    [regulator |-> "ECB", type |-> type, web_title |-> title,
     published_at |-> published, web_url |-> url, category |-> category,
     related_urls |-> related]

\* lines 119-130 once the keyword arguments up to web_url are evaluated
WithRelated(type, release, url, related) ==
    IF url.exc # "none" THEN url
    ELSE IF related.exc # "none" THEN related
    ELSE Done(CreatePublication(
                release["publicationProperties"].m.Title,
                [fromtimestamp |-> release["pub_timestamp"].n],
                url.v, type,
                IF release["Taxonomy"].t = "null" THEN <<>> ELSE release["Taxonomy"].v,
                related.v))

\* _parse_db_publications_as_publication
ParseDbPublication(type, release) ==
    IF release["publicationProperties"].t # "map" THEN Raised("TypeError")
    ELSE IF "Title" \notin DOMAIN release["publicationProperties"].m THEN Raised("KeyError")
    ELSE IF release["pub_timestamp"].t # "int" THEN Raised("TypeError")
    ELSE IF release["documentTypes"].t # "list" THEN Raised("TypeError")
    ELSE IF release["documentTypes"].v = <<>> THEN Raised("IndexError")
    ELSE WithRelated(type, release, UrlJoin(release["documentTypes"].v[1]),
                     RelatedUrls(release["childrenPublication"], Done(<<>>)))

\* the list comprehension of line 115 after the outcome p of one element
RECURSIVE ParseAll(_, _, _)
AfterOne(type, rest, acc, p) ==
    IF p.exc # "none" THEN p ELSE ParseAll(type, rest, Append(acc, p.v))

ParseAll(type, releases, acc) ==
    IF releases = <<>> THEN Done(acc)
    ELSE AfterOne(type, Tail(releases), acc, ParseDbPublication(type, Head(releases)))

\* the stores of releases
LoadHeader ==
    <<"type", "publicationProperties", "pub_timestamp", "documentTypes", "Taxonomy",
      "childrenPublication">>

Release(type, properties, document_types, taxonomy, children) ==
    <<IntValue(type), [t |-> "map", m |-> properties], IntValue(7),
      [t |-> "list", v |-> document_types], taxonomy, [t |-> "list", v |-> children]>>

ReleasePool ==
    {Release(NEWS_TYPE_PRESS_RELEASE, [Title |-> <<"a">>], <<StrValue(<<"a">>)>>,
             NullValue, <<StrValue(GoodRow)>>),
     Release(NEWS_TYPE_LETTER_TO_MEPS, [Title |-> <<"a">>], <<StrValue(<<"1">>)>>,
             StrValue(<<"a">>), <<>>),
     Release(NEWS_TYPE_PRESS_RELEASE, [Title |-> <<"1">>], <<>>, NullValue, <<>>),
     Release(NEWS_TYPE_LETTER_TO_MEPS, [Name |-> <<"a">>], <<StrValue(<<"a">>)>>,
             NullValue, <<StrValue(DefaultedRow)>>)}

LoadStores ==
    {[versions |-> TwoVersions,
      metadata |-> [chunk_size |-> cs, chunk_group_size |-> 1, header |-> LoadHeader,
                    total_records |-> Len(rows), indexes |-> ix],
      kids |-> <<>>,
      rows |-> rows] :
        rows \in SeqsUpTo(ReleasePool, MaxReleases), cs \in 1..MaxChunkSize,
        ix \in {<<>>, <<"type">>}}

\* a call load_publications_from_db(update_type, amount_to_fetch = k)
InitLoad ==
    /\ store \in LoadStores
    /\ amount_to_fetch = DbFetchAmount
    /\ update_type \in {UPDATE_TYPE_REGULATION, UPDATE_TYPE_PRESS_RELEASE, REGULATION, NEWS}
    /\ db_amount \in 0..MaxAmount
    /\ matching_releases = <<>>
    /\ publications = <<>>
    /\ load_error = "none"
    /\ pc = "versions"
    /\ loaded_db = <<>>
    /\ chunk_cache = <<>>
    /\ index_i = 0
    /\ all_items = <<>>
    /\ result = <<>>
    /\ error = "none"
    /\ fetch_log = <<>>
    /\ calls = <<>>
    /\ raw_data = <<>>
    /\ value = <<>>
    /\ parsed_pub = <<>>
    /\ parsed_publications = <<>>
    /\ NoCallers
    /\ NoScraper
    /\ NoPublication

\* lines 106-113: releases is the list _fetch_foe_db_data returned
SelectReleases ==
    /\ pc = "done"
    /\ matching_releases' = MatchLoop(result, PubType(update_type), db_amount, <<>>)
    /\ pc' = "convert"
    /\ UNCHANGED <<session_vars, decoder_vars, callers, update_type, db_amount, publications,
                   load_error, publication_vars, scraper_vars>>

\* the effect of line 115 ending as r
Loaded(r) ==
    /\ publications' = r.v
    /\ load_error' = r.exc
    /\ pc' = "loaded"
    /\ UNCHANGED <<session_vars, decoder_vars, callers, update_type, db_amount,
                   matching_releases, publication_vars, scraper_vars>>

\* line 115
ConvertReleases ==
    /\ pc = "convert"
    /\ Loaded(ParseAll(update_type, matching_releases, <<>>))

NextLoad ==
    \/ FetchVersions
    \/ FetchMetadata
    \/ FetchIndex
    \/ FetchItem
    \/ ReturnItems
    \/ SelectReleases
    \/ ConvertReleases

SpecLoad == InitLoad /\ [][NextLoad]_vars

(***************************************************************************)
(* dbb_scraper.Publication: the dataclass and its __post_init__.  A title  *)
(* is kept as its length, a point in time as a number of ticks since       *)
(* 2000-01-01 00:00, a URL as its text.                                    *)
(***************************************************************************)
MAX_TITLE_LENGTH == 500

MIN_TITLE_LENGTH == 3

MAX_RELATED_URLS == 50

TicksPerDay == 2

Epoch == 0

\* timedelta(days=1)
FUTURE_TOLERANCE == 1 * TicksPerDay

\* timedelta(days=(datetime.now() - datetime(2000, 1, 1)).days), evaluated
\* when the module is imported
PAST_TOLERANCE(imported) == ((imported - Epoch) \div TicksPerDay) * TicksPerDay

ValidationError(message, field, val) ==
    [exc |-> "ValidationError", message |-> message, field |-> field, val |-> val]

Valid == [exc |-> "none"]

TitleOfLength(n) == [t |-> "str", len |-> n]

\* variant: the lower bound is exclusive
ValidateTitle_Exclusive(title) ==
    IF title.t # "str" THEN ValidationError("Title must be a string", "web_title", title)
    ELSE IF ~(MIN_TITLE_LENGTH < title.len /\ title.len <= MAX_TITLE_LENGTH)
    THEN ValidationError("Title length must be between", "web_title", title)
    ELSE Valid

\* _validate_title
ValidateTitle(title) ==
    IF title.t # "str" THEN ValidationError("Title must be a string", "web_title", title)
    ELSE IF ~(MIN_TITLE_LENGTH <= title.len /\ title.len <= MAX_TITLE_LENGTH)
    THEN ValidationError("Title length must be between", "web_title", title)
    ELSE Valid

DateAt(ticks) == [t |-> "datetime", at |-> ticks]

\* _validate_date
ValidateDate(published, imported, current) ==
    IF published.t # "datetime"
    THEN ValidationError("Published date must be a datetime object", "published_at", published)
    ELSE IF published.at > current + FUTURE_TOLERANCE
    THEN ValidationError("Publication date cannot be too far in the future", "published_at",
                         published)
    ELSE IF published.at < current - PAST_TOLERANCE(imported)
    THEN ValidationError("Publication date cannot be too far in the past", "published_at",
                         published)
    ELSE Valid

\* urllib.parse.urlparse: the scheme and the netloc of a text
Letters == {"h", "a", "t", "p", "s"}

SchemeChars == Letters \cup {"1"}

\* the first position from `from` on that holds one of the characters, or 0
FindChar(text, chars, from) ==
    IF \E i \in from..Len(text) : text[i] \in chars
    THEN CHOOSE i \in from..Len(text) :
             text[i] \in chars /\ \A k \in from..(i - 1) : text[k] \notin chars
    ELSE 0

SplitScheme(url, i) ==
    IF i > 1 /\ url[1] \in Letters /\ \A k \in 1..(i - 1) : url[k] \in SchemeChars
    THEN [scheme |-> SubSeq(url, 1, i - 1), rest |-> SubSeq(url, i + 1, Len(url))]
    ELSE [scheme |-> <<>>, rest |-> url]

NetlocEnd(rest, d) == IF d = 0 THEN Len(rest) ELSE d - 1

SplitNetloc(rest) ==
    IF Len(rest) >= 2 /\ rest[1] = "/" /\ rest[2] = "/"
    THEN SubSeq(rest, 3, NetlocEnd(rest, FindChar(rest, {"/", "?", "#"}, 3)))
    ELSE <<>>

Parsed(split) == [scheme |-> split.scheme, netloc |-> SplitNetloc(split.rest)]

UrlParse(url) == Parsed(SplitScheme(url, FindChar(url, {":"}, 1)))

\* all([parsed.scheme, parsed.netloc])
HasSchemeAndNetloc(parsed) == parsed.scheme # <<>> /\ parsed.netloc # <<>>

\* _validate_url; the ValidationError raised inside the try is caught by its
\* except Exception and raised again as "URL parsing failed"
ValidateUrl(url) ==
    IF url.t # "str" THEN ValidationError("URL must be a string", "web_url", url)
    ELSE IF ~HasSchemeAndNetloc(UrlParse(url.v))
    THEN ValidationError("URL parsing failed", "web_url", url)
    ELSE Valid

BadRelated(url) == url.t # "str" \/ ~HasSchemeAndNetloc(UrlParse(url.v))

\* the loop of _validate_related_urls stopped at its first bad element
RelatedError(url) ==
    IF url.t # "str" THEN ValidationError("Related URL must be a string", "related_urls", url)
    ELSE ValidationError("Related URL parsing failed", "related_urls", url)

\* _validate_related_urls
ValidateRelatedUrls(related) ==
    IF related.t # "list"
    THEN ValidationError("Related URLs must be a list", "related_urls", related)
    ELSE IF Len(related.v) > MAX_RELATED_URLS
    THEN ValidationError("Too many related URLs", "related_urls", IntValue(Len(related.v)))
    ELSE IF \E i \in 1..Len(related.v) : BadRelated(related.v[i])
    THEN RelatedError(related.v[CHOOSE i \in 1..Len(related.v) :
                                    /\ BadRelated(related.v[i])
                                    /\ \A k \in 1..(i - 1) : ~BadRelated(related.v[k])])
    ELSE Valid

\* variant: the URL is checked before the date
FirstOf_UrlFirst(e1, e2, e3, e4) ==
    IF e1.exc # "none" THEN e1
    ELSE IF e3.exc # "none" THEN e3
    ELSE IF e2.exc # "none" THEN e2
    ELSE e4

\* the checks of __post_init__ run in order and the first that raises ends it
FirstOf(e1, e2, e3, e4) ==
    IF e1.exc # "none" THEN e1
    ELSE IF e2.exc # "none" THEN e2
    ELSE IF e3.exc # "none" THEN e3
    ELSE e4

\* Publication(web_title, published_at, web_url, related_urls) for the
\* outcome e of __post_init__
NewPublication(e, title, published, url, related) ==
    IF e.exc # "none" THEN e
    ELSE [exc |-> "none",
          v |-> [web_title |-> title, published_at |-> published, web_url |-> url,
                 related_urls |-> related]]

\* the arguments Publication is constructed with
TitleLengths ==
    {n \in 0..(MAX_TITLE_LENGTH + MaxExcess) :
        n <= MIN_TITLE_LENGTH + MaxExcess \/ n >= MAX_TITLE_LENGTH - MaxExcess}

TitlePool == {TitleOfLength(n) : n \in TitleLengths} \cup {NullValue}

ImportTimes ==
    {Epoch + d * TicksPerDay + f : d \in 1..MaxDays, f \in 0..(TicksPerDay - 1)}

U_Valid == <<"h", ":", "/", "/", "a">>

U_NoScheme == <<"a">>

U_NoHost == <<"h", ":", "a">>

U_HostOnly == <<"/", "/", "a">>

U_EmptyHost == <<"h", ":", "/", "/", "/", "a">>

U_DigitScheme == <<"1", ":", "/", "/", "a">>

UrlPool ==
    {StrValue(u) : u \in {U_Valid, U_NoScheme, U_NoHost, U_HostOnly, U_EmptyHost,
                          U_DigitScheme, <<>>}}
    \cup {NullValue}

ListValue(elems) == [t |-> "list", v |-> elems]

Repeat(e, n) == [i \in 1..n |-> e]

RelatedPool ==
    {NullValue, ListValue(<<>>), ListValue(<<StrValue(U_Valid)>>),
     ListValue(<<StrValue(U_Valid), StrValue(U_NoScheme)>>),
     ListValue(<<StrValue(U_Valid), NullValue, StrValue(U_NoScheme)>>),
     ListValue(Repeat(StrValue(U_Valid), MAX_RELATED_URLS)),
     ListValue(Repeat(StrValue(U_Valid), MAX_RELATED_URLS + 1)),
     ListValue(Repeat(StrValue(U_NoScheme), MAX_RELATED_URLS + 1))}

InitPublication ==
    /\ pc = "construct"
    /\ import_time \in ImportTimes
    /\ now \in import_time..(import_time + 1)
    /\ web_title \in TitlePool
    /\ published_at \in {DateAt(at) : at \in (Epoch - 1)..(now + 2 * FUTURE_TOLERANCE)}
                           \cup {NullValue}
    /\ web_url \in UrlPool
    /\ related_urls \in RelatedPool
    /\ constructed = [exc |-> "none"]
    /\ store = [versions |-> <<>>,
                metadata |-> [chunk_size |-> 1, chunk_group_size |-> 1, header |-> <<>>,
                              total_records |-> 0, indexes |-> <<>>],
                kids |-> <<>>]
    /\ amount_to_fetch = 0
    /\ loaded_db = <<>>
    /\ chunk_cache = <<>>
    /\ index_i = 0
    /\ all_items = <<>>
    /\ result = <<>>
    /\ error = "none"
    /\ fetch_log = <<>>
    /\ calls = <<>>
    /\ raw_data = <<>>
    /\ value = <<>>
    /\ parsed_pub = <<>>
    /\ parsed_publications = <<>>
    /\ NoCallers
    /\ NoScraper
    /\ NoLoad

\* Publication(web_title, published_at, web_url, related_urls)
Construct ==
    /\ pc = "construct"
    /\ constructed' =
         NewPublication(FirstOf(ValidateTitle(web_title),
                          ValidateDate(published_at, import_time, now),
                          ValidateUrl(web_url),
                          ValidateRelatedUrls(related_urls)),
                  web_title, published_at, web_url, related_urls)
    /\ pc' = "constructed"
    /\ UNCHANGED <<session_vars, decoder_vars, callers, load_vars, import_time, now,
                   web_title, published_at, web_url, related_urls, scraper_vars>>

NextPublication == Construct

SpecPublication == InitPublication /\ [][NextPublication]_vars

(***************************************************************************)
(* dbb_scraper.BaseScraper._request: one action per invocation of the      *)
(* recursive method.  request_log holds the requests sent, with the status *)
(* received or the RequestException raised, and the calls of retry_wait.   *)
(***************************************************************************)
RETRY_LIMIT == 5

\* the session, the decoder, the callers, the load and the constructor at rest
NoReader ==
    /\ store = [versions |-> <<>>,
                metadata |-> [chunk_size |-> 1, chunk_group_size |-> 1, header |-> <<>>,
                              total_records |-> 0, indexes |-> <<>>],
                kids |-> <<>>]
    /\ amount_to_fetch = 0
    /\ loaded_db = <<>>
    /\ chunk_cache = <<>>
    /\ index_i = 0
    /\ all_items = <<>>
    /\ result = <<>>
    /\ error = "none"
    /\ fetch_log = <<>>
    /\ calls = <<>>
    /\ raw_data = <<>>
    /\ value = <<>>
    /\ parsed_pub = <<>>
    /\ parsed_publications = <<>>
    /\ NoCallers
    /\ NoLoad

NoSession == NoReader /\ NoPublication

NoFeed == feed = <<>> /\ articles = [exc |-> "none"] /\ urls = <<>> /\ filtered = <<>>

beside_scraper == <<session_vars, decoder_vars, callers, load_vars, publication_vars, feed,
                    articles, urls, filtered>>

\* the status codes the server answers with
Statuses == {200, 404}

Sent(status) == [e |-> "request", status |-> status]

RequestException == [e |-> "exception", status |-> 0]

Waited == [e |-> "wait", status |-> 0]

\* variant: only the status 200 is taken as the expected one
StatusExpected_Only200(status, want) == status = 200

\* line 166: resp.status_code != expected
StatusExpected(status, want) == status = want

\* a call self._request(url, method, config, expected) as get_page,
\* get_rss_feed and download_file make it: retries = 0
InitRequest ==
    /\ pc = "request"
    /\ retries = 0
    /\ expected \in Statuses
    /\ request_log = <<>>
    /\ response = [exc |-> "none"]
    /\ attempt = 0
    /\ NoSession
    /\ NoFeed

\* lines 156-157; TooManyRetries is no RequestException, so no handler on
\* the way up catches it
RaiseTooManyRetries ==
    /\ pc = "request"
    /\ retries > RETRY_LIMIT
    /\ response' = Raised("TooManyRetries")
    /\ pc' = "raised"
    /\ UNCHANGED <<retries, expected, request_log, attempt, beside_scraper>>

\* lines 159-172 for a response with the given status: return it, or wait
\* and call _request again with retries + 1
Answered(status) ==
    IF StatusExpected(status, expected)
    THEN /\ request_log' = Append(request_log, Sent(status))
         /\ response' = Done([status_code |-> status])
         /\ pc' = "returned"
         /\ UNCHANGED retries
    ELSE /\ request_log' = request_log \o <<Sent(status), Waited>>
         /\ retries' = retries + 1
         /\ UNCHANGED <<pc, response>>

SendRequest ==
    /\ pc = "request"
    /\ retries <= RETRY_LIMIT
    /\ \E status \in Statuses : Answered(status)
    /\ UNCHANGED <<expected, attempt, beside_scraper>>

\* lines 159-164 raising requests.RequestException, handled at lines 173-178
RequestFails ==
    /\ pc = "request"
    /\ retries <= RETRY_LIMIT
    /\ request_log' = request_log \o <<RequestException, Waited>>
    /\ retries' = retries + 1
    /\ UNCHANGED <<pc, response, expected, attempt, beside_scraper>>

NextRequest == RaiseTooManyRetries \/ SendRequest \/ RequestFails

SpecRequest == InitRequest /\ [][NextRequest]_vars

\* the interpreter runs the call to its end
SpecRequestLive == SpecRequest /\ WF_vars(NextRequest)

(***************************************************************************)
(* utils.load_page_content: the loop "for attempt in range(3)" with its    *)
(* else clause, one action per iteration.                                  *)
(***************************************************************************)
PageAttempts == 3

\* what requests.get answers with: a status and a body
PageStatuses == {200, 404, 500}

PageBodies == {<<>>, <<"a">>}

Got(status, content) == [e |-> "get", status |-> status, content |-> content]

GetRaised == [e |-> "exception", status |-> 0, content |-> <<>>]

\* resp.ok: the status is below 400
RespOk(status) == status < 400

\* line 30: resp.ok and resp.content
PageLoaded(status, content) == RespOk(status) /\ content # <<>>

\* a call load_page_content(url)
InitPage ==
    /\ pc = "page"
    /\ attempt = 0
    /\ request_log = <<>>
    /\ response = [exc |-> "none"]
    /\ retries = 0
    /\ expected = 200
    /\ NoSession
    /\ NoFeed

\* lines 29-34 for a response: break and return resp.text (lines 40-43), or
\* log the failure and go on with the next attempt
GetAnswered(status, content) ==
    /\ request_log' = Append(request_log, Got(status, content))
    /\ IF PageLoaded(status, content)
       THEN response' = Done(content) /\ pc' = "returned" /\ UNCHANGED attempt
       ELSE attempt' = attempt + 1 /\ UNCHANGED <<pc, response>>

GetPage ==
    /\ pc = "page"
    /\ attempt < PageAttempts
    /\ \E status \in PageStatuses, content \in PageBodies : GetAnswered(status, content)
    /\ UNCHANGED <<retries, expected, beside_scraper>>

\* line 29 raising: requests.get is in no try, the exception leaves the
\* function
GetFails ==
    /\ pc = "page"
    /\ attempt < PageAttempts
    /\ request_log' = Append(request_log, GetRaised)
    /\ response' = Raised("RequestException")
    /\ pc' = "raised"
    /\ UNCHANGED <<attempt, retries, expected, beside_scraper>>

\* lines 36-38: the else clause of the loop
PageExhausted ==
    /\ pc = "page"
    /\ attempt = PageAttempts
    /\ response' = Raised("Exception")
    /\ pc' = "raised"
    /\ UNCHANGED <<attempt, request_log, retries, expected, beside_scraper>>

NextPage == GetPage \/ GetFails \/ PageExhausted

SpecPage == InitPage /\ [][NextPage]_vars

(***************************************************************************)
(* dbb_scraper.BundesbankScraper.parse_rss_articles.  An entry is a record *)
(* whose fields are the attributes it has; texts are sequences of          *)
(* characters.  The date text is reduced to a run of the digit 1, one per  *)
(* tick since 2000-01-01, followed by the zone Z.                          *)
(***************************************************************************)
MaxEntries == 2

RECURSIVE StripLeft(_)
StripLeft(text) ==
    IF text # <<>> /\ Head(text) = " " THEN StripLeft(Tail(text)) ELSE text

RECURSIVE StripRight(_)
StripRight(text) ==
    IF text # <<>> /\ text[Len(text)] = " "
    THEN StripRight(SubSeq(text, 1, Len(text) - 1))
    ELSE text

\* variant: only the leading blanks are removed
Strip_LeadingOnly(text) == StripLeft(text)

\* str.strip()
Strip(text) == StripRight(StripLeft(text))

\* a title given by its text
TextTitle(text) == [t |-> "str", len |-> Len(text), text |-> text]

\* datetime.strptime(entry.published, DATE_FORMAT_RSS)
Strptime(text) ==
    IF text # <<>> /\ text[Len(text)] = "Z" /\ \A i \in 1..(Len(text) - 1) : text[i] = "1"
    THEN Done(DateAt(Epoch + Len(text) - 1))
    ELSE Raised("ValueError")

StartsWith(text, prefix) ==
    Len(text) >= Len(prefix) /\ SubSeq(text, 1, Len(prefix)) = prefix

\* startswith(('http://', 'https://'))
IsHttp(text) ==
    \/ StartsWith(text, <<"h", "t", "t", "p", ":", "/", "/">>)
    \/ StartsWith(text, <<"h", "t", "t", "p", "s", ":", "/", "/">>)

\* lines 339-344: the enclosures that have an href with an http(s) prefix
HasHttpHref(enclosure) == "href" \in DOMAIN enclosure /\ IsHttp(enclosure.href)

Hrefs(kept) == [i \in 1..Len(kept) |-> StrValue(kept[i].href)]

EnclosureUrls(entry) ==
    IF "enclosures" \in DOMAIN entry THEN Hrefs(SelectSeq(entry.enclosures, HasHttpHref))
    ELSE <<>>

\* lines 347-352
BuildPublication(title, published, url, related, imported, current) ==
    NewPublication(FirstOf(ValidateTitle(title), ValidateDate(published, imported, current),
                           ValidateUrl(url), ValidateRelatedUrls(related)),
                   title, published, url, related)

\* the body of the try of lines 317-353 for one entry
ParseEntry(entry, imported, current) ==
    IF ~({"title", "link", "published"} \subseteq DOMAIN entry) THEN Raised("ParserException")
    ELSE IF Strptime(entry.published).exc # "none" THEN Raised("ParserException")
    ELSE IF ~IsHttp(entry.link) THEN Raised("ParserException")
    ELSE BuildPublication(TextTitle(Strip(entry.title)), Strptime(entry.published).v,
                          StrValue(entry.link), ListValue(EnclosureUrls(entry)),
                          imported, current)

\* lines 353-362: a publication is appended, a ParserException or a
\* ValidationError is recorded and the loop goes on
Collected(acc, p) == IF p.exc = "none" THEN Append(acc, p.v) ELSE acc

RECURSIVE ParseEntries(_, _, _, _)
ParseEntries(entries, imported, current, acc) ==
    IF entries = <<>> THEN acc
    ELSE ParseEntries(Tail(entries), imported, current,
                      Collected(acc, ParseEntry(Head(entries), imported, current)))

\* lines 369-372
Finished(found) == IF found = <<>> THEN Raised("ParserException") ELSE Done(found)

ParseRssArticles(entries, imported, current) ==
    IF entries = <<>> THEN Raised("ParserException")
    ELSE Finished(ParseEntries(entries, imported, current, <<>>))

\* the entries of the feeds
L_Http == <<"h", "t", "t", "p", ":", "/", "/", "a">>

L_Https == <<"h", "t", "t", "p", "s", ":", "/", "/", "a">>

L_NoHost == <<"h", "t", "t", "p", ":", "/", "/">>

D_Epoch == <<"Z">>

D_DayOne == <<"1", "1", "Z">>

D_Future == <<"1", "1", "1", "1", "1", "1", "1", "1", "Z">>

EntryPool ==
    {[title |-> <<" ", "a", "b", "c", " ">>, link |-> L_Http, published |-> D_DayOne,
      enclosures |-> <<[href |-> L_Http], [href |-> U_Valid], [type |-> <<"a">>]>>],
     [title |-> <<"a", " ", "b">>, link |-> L_Https, published |-> D_Epoch],
     [title |-> <<"a", "b", "c">>, published |-> D_DayOne],
     [title |-> <<"a", "b", "c">>, link |-> L_Http, published |-> <<"a">>],
     [title |-> <<"a", "b", "c">>, link |-> U_Valid, published |-> D_DayOne],
     [title |-> <<"a", "b", " ">>, link |-> L_Http, published |-> D_DayOne],
     [title |-> <<"a", "b", "c">>, link |-> L_Http, published |-> D_Future],
     [title |-> <<"a", "b", "c">>, link |-> L_NoHost, published |-> D_DayOne],
     [title |-> <<"a", "b", "c">>, link |-> L_Http, published |-> D_DayOne,
      enclosures |-> <<[href |-> L_NoHost]>>]}

\* a call parse_rss_articles(feed)
InitRss ==
    /\ pc = "rss"
    /\ feed \in SeqsUpTo(EntryPool, MaxEntries)
    /\ articles = [exc |-> "none"]
    /\ import_time \in ImportTimes
    /\ now \in import_time..(import_time + 1)
    /\ web_title = NullValue
    /\ published_at = NullValue
    /\ web_url = NullValue
    /\ related_urls = NullValue
    /\ constructed = [exc |-> "none"]
    /\ retries = 0
    /\ expected = 200
    /\ request_log = <<>>
    /\ response = [exc |-> "none"]
    /\ attempt = 0
    /\ urls = <<>>
    /\ filtered = <<>>
    /\ NoReader

ParseRss ==
    /\ pc = "rss"
    /\ articles' = ParseRssArticles(feed, import_time, now)
    /\ pc' = "parsed"
    /\ UNCHANGED <<feed, urls, filtered, request_vars, session_vars, decoder_vars, callers,
                   load_vars, publication_vars>>

NextRss == ParseRss

SpecRss == InitRss /\ [][NextRss]_vars

(***************************************************************************)
(* assignment_2_2/ecb_scraper._filter_related_urls.  list(clean_urls)      *)
(* gives the elements of the set in an order the code does not fix, so     *)
(* the list returned is any ordering of the set.                           *)
(***************************************************************************)
MaxUrls == 3

UpTo(text, q) == IF q = 0 THEN text ELSE SubSeq(text, 1, q - 1)

\* variant: the query string is kept
BeforeQuery_Keep(url) == url

\* url.split('?')[0]
BeforeQuery(url) == UpTo(url, FindChar(url, {"?"}, 1))

\* marker in text
Contains(text, marker) ==
    \E i \in 1..(Len(text) - Len(marker) + 1) : SubSeq(text, i, i + Len(marker) - 1) = marker

EnMarker == <<".", "e", "n", ".">>

\* the set clean_urls after the loop of lines 104-108
CleanUrls(list) ==
    {clean \in {BeforeQuery(list[i]) : i \in 1..Len(list)} : Contains(clean, EnMarker)}

\* list(clean_urls)
Orders(S) == {order \in [1..Cardinality(S) -> S] : Range(order) = S}

F_En == <<"a", ".", "e", "n", ".">>

FilterPool ==
    {F_En,
     F_En \o <<"?", "1">>,
     F_En \o <<"?", "a", "?", "1">>,
     <<"a", ".", "d", "e", ".">>,
     <<"a", "?", ".", "e", "n", ".">>,
     <<".", "e", "n", ".", "a">>}

InitFilter ==
    /\ pc = "filter"
    /\ urls \in SeqsUpTo(FilterPool, MaxUrls)
    /\ filtered = <<>>
    /\ feed = <<>>
    /\ articles = [exc |-> "none"]
    /\ retries = 0
    /\ expected = 200
    /\ request_log = <<>>
    /\ response = [exc |-> "none"]
    /\ attempt = 0
    /\ NoSession

\* a call _filter_related_urls(urls)
FilterRelatedUrls ==
    /\ pc = "filter"
    /\ filtered' \in Orders(CleanUrls(urls))
    /\ pc' = "filtered"
    /\ UNCHANGED <<urls, feed, articles, request_vars, session_vars, decoder_vars, callers,
                   load_vars, publication_vars>>

\* the call repeated on the list just returned
FilterAgain ==
    /\ pc = "filtered"
    /\ urls' = filtered
    /\ filtered' \in Orders(CleanUrls(filtered))
    /\ pc' = "refiltered"
    /\ UNCHANGED <<feed, articles, request_vars, session_vars, decoder_vars, callers,
                   load_vars, publication_vars>>

NextFilter == FilterRelatedUrls \/ FilterAgain

SpecFilter == InitFilter /\ [][NextFilter]_vars

(***************************************************************************)
(* Properties.                                                             *)
(***************************************************************************)
TotalRecords == store.metadata.total_records

InRange(sort_id) == sort_id \in 0..(TotalRecords - 1)

Returned(k) == calls[k].exc = "none"

DataFetches == {i \in 1..Len(fetch_log) : fetch_log[i].request = "data"}

\* C1: for every sort_id in [0, total_records), the record returned by
\* get_data_by_id(sort_id) carries the id field "$foedb:id" equal to sort_id,
\* whatever was resolved before.
C1_IdFieldIsSortId ==
    \A k \in 1..Len(calls) :
        InRange(calls[k].sort_id) /\ Returned(k)
            => calls[k].result[IdField] = calls[k].sort_id

\* a record returned for an id of a later chunk position after a larger id
\* was resolved first
C1_Witness ==
    \E k \in 2..Len(calls) :
        /\ Returned(k) /\ InRange(calls[k].sort_id)
        /\ calls[k].sort_id >= store.metadata.chunk_size
        /\ calls[k - 1].sort_id > calls[k].sort_id
        /\ calls[k].result[IdField] = calls[k].sort_id

\* C2: in one session every chunk id is fetched at most once; a call of
\* get_data_by_id issues one chunk fetch when its chunk is not cached and
\* none when it is.
C2_ChunkFetchedAtMostOnce ==
    /\ \A i, j \in DataFetches : i # j => fetch_log[i].chunk # fetch_log[j].chunk
    /\ \A k \in 1..Len(calls) :
         Len(calls[k].fetched) =
            IF ChunkId(calls[k].sort_id, store.metadata.chunk_size) \in calls[k].cached
            THEN 0 ELSE 1

\* two different ids of one chunk resolved, the second without a fetch
C2_Witness ==
    \E k, l \in 1..Len(calls) :
        /\ k < l /\ Returned(k) /\ Returned(l)
        /\ calls[k].sort_id # calls[l].sort_id
        /\ ChunkId(calls[k].sort_id, store.metadata.chunk_size)
             = ChunkId(calls[l].sort_id, store.metadata.chunk_size)
        /\ Len(calls[k].fetched) = 1
        /\ calls[l].fetched = <<>>

C4_RecordMatchesFlatLayout ==
    \A k \in 1..Len(calls) :
        InRange(calls[k].sort_id) /\ Returned(k) =>
            LET header == store.metadata.header IN
            /\ DOMAIN calls[k].result = Range(header) \cup {IdField}
            /\ \A j \in 1..Len(header) :
                 header[j] \notin PublicationFields =>
                    calls[k].result[header[j]] = FlatValue(store, calls[k].sort_id, j - 1)

\* the scenario chunk_size 2, header [id, title], 4 records: record 3 is the
\* 7th and 8th value of the store with id field 3, record 0 the first two
C4_Witness ==
    /\ store.metadata.chunk_size = 2
    /\ store.metadata.header = <<"id", "title">>
    /\ TotalRecords = 4
    /\ Len(calls) = 2
    /\ calls[1].sort_id = 3 /\ Returned(1)
    /\ calls[1].result =
         ("id" :> [t |-> "int", n |-> 6]) @@ ("title" :> [t |-> "int", n |-> 7])
           @@ (IdField :> 3)
    /\ calls[2].sort_id = 0 /\ Returned(2)
    /\ calls[2].result =
         ("id" :> [t |-> "int", n |-> 0]) @@ ("title" :> [t |-> "int", n |-> 1])
           @@ (IdField :> 0)

\* C5: for sort_id >= 0, get_data_by_id reads the chunk file with directory
\* (sort_id // chunk_size) // chunk_group_size and file sort_id // chunk_size
\* and takes the slice [o * len(header), (o + 1) * len(header)) with
\* o = sort_id % chunk_size; chunk_size 100, chunk_group_size 10 and
\* sort_id 1234 give chunk 12, group 1, offset 34.
C5_ChunkAddressing ==
    /\ ChunkId(1234, 100) = 12
    /\ ChunkGroupId(ChunkId(1234, 100), 10) = 1
    /\ SliceStart(1234, 100, 1) = 34
    /\ \A k \in 1..Len(calls) :
         calls[k].sort_id >= 0 =>
            LET m == store.metadata
                h == Len(m.header)
                c == calls[k].sort_id \div m.chunk_size
                o == calls[k].sort_id % m.chunk_size
            IN  /\ \A i \in 1..Len(calls[k].fetched) :
                     /\ calls[k].fetched[i].request = "data"
                     /\ calls[k].fetched[i].chunk = c
                     /\ calls[k].fetched[i].group = c \div m.chunk_group_size
                     /\ calls[k].fetched[i].version = loaded_db.database_version
                     /\ calls[k].fetched[i].hash = loaded_db.database_hash
                /\ Returned(k) =>
                     /\ c \in DOMAIN chunk_cache
                     /\ \A j \in 1..h :
                          calls[k].result[m.header[j]] =
                             FieldValue(loaded_db, m.header[j], chunk_cache[c][o * h + j])

\* a record of the second group directory, at a non-zero offset of its chunk
C5_Witness ==
    \E k \in 1..Len(calls) :
        /\ Returned(k)
        /\ Len(calls[k].fetched) = 1
        /\ calls[k].fetched[1].group = 1
        /\ calls[k].fetched[1].chunk > 1
        /\ calls[k].sort_id % store.metadata.chunk_size = 1


\* C6: _fetch_foe_db_data(amount_to_fetch = n), when nothing fails, resolves
\* exactly the sort ids 0 .. min(n, total_records) - 1 in ascending order:
\* the list returned has length min(n, total_records) (0 for n <= 0) and its
\* i-th element is the record of sort id i.
C6_FetchNResolvesPrefix ==
    pc = "done" /\ error = "none" =>
        LET n == Min(amount_to_fetch, TotalRecords) IN
        /\ Len(result) = IF n <= 0 THEN 0 ELSE n
        /\ Len(calls) = Len(result)
        /\ \A i \in 1..Len(result) :
             /\ calls[i].sort_id = i - 1
             /\ result[i] = calls[i].result
             /\ result[i][IdField] = i - 1

\* more records asked for than the store holds: all of them, in order
C6_Witness ==
    /\ pc = "done" /\ error = "none"
    /\ amount_to_fetch > TotalRecords
    /\ TotalRecords >= 3
    /\ Len(result) = TotalRecords
    /\ result[3][IdField] = 2

CacheIsSound == \A c \in DOMAIN chunk_cache : chunk_cache[c] = ChunkDocument(store, c)

\* C7: a chunk fetch that fails leaves the chunk cache untouched (no entry
\* added, changed or removed; every entry is the complete document of a
\* successful fetch of its chunk), and is fatal only to that one call of
\* get_data_by_id: the records of the other calls are still returned.
C7_ChunkFailureIsLocal ==
    /\ CacheIsSound
    /\ \A k \in 1..Len(calls) :
         ~Returned(k) => k = Len(calls) /\ DOMAIN chunk_cache = calls[k].cached
    /\ pc = "done" /\ (\E k \in 1..Len(calls) : ~Returned(k)) => result = all_items

NumFields(raw) == Len(CsvRow(raw).fields)

Decodes(e) == IsStr(e) /\ Truthy(ParseRelatedPublication(e.v))

\* the decodings, in order, of the elements of a list that decode
ExpectedExpansion(list) ==
    LET kept == SelectSeq(list, Decodes) IN
    [i \in 1..Len(kept) |-> ParseRelatedPublication(kept[i].v)]

Decoded == pc \in {"expand", "decoded"}

\* C8 as stated: a row with fewer than 11 fields yields a decode failure,
\* and the caller drops exactly that sub-record from the expanded list.
C8_FewerThan11FieldsFails ==
    /\ Decoded /\ NumFields(raw_data) < 11 => ~Truthy(parsed_pub)
    /\ pc = "decoded" => parsed_publications = ExpectedExpansion(value)

\* C8 amended: a row with fewer than 5 fields yields a decode failure, and
\* the caller drops exactly that sub-record from the expanded list; a row
\* with 5 to 10 fields decodes, with metadata = {} and, below 10 fields,
\* pdfUrls = [].
C8_FewerThan5FieldsFails ==
    /\ Decoded /\ NumFields(raw_data) < 5 => ~Truthy(parsed_pub)
    /\ Decoded /\ NumFields(raw_data) \in 5..10 =>
         /\ Truthy(parsed_pub)
         /\ parsed_pub.metadata = EmptyObject
         /\ NumFields(raw_data) < 10 => parsed_pub.pdfUrls = EmptyList
    /\ pc = "decoded" =>
         /\ parsed_publications = ExpectedExpansion(value)
         /\ \A i \in 1..Len(parsed_publications) : Truthy(parsed_publications[i])

\* a row of 1 to 4 fields failed to decode and was dropped from a list whose
\* other element was kept
C8_Witness ==
    /\ pc = "decoded"
    /\ NumFields(raw_data) \in 1..4
    /\ ~Truthy(parsed_pub)
    /\ Len(value) = 2
    /\ Len(parsed_publications) = 1

JsonField(raw, k) == JsonLoads(ReplaceEscapedQuotes(CsvRow(raw).fields[k + 1]))

\* C9: for a row with at least 11 fields, a field 9 that does not parse as
\* JSON yields pdfUrls = [] and a field 10 that does not parse as JSON yields
\* metadata = {}, independently of each other, while publicationId,
\* timestamp and date are taken from fields 0-4 and the decode succeeds.
C9_JsonFieldsAreLenient ==
    Decoded /\ NumFields(raw_data) >= 11 =>
        LET fields == CsvRow(raw_data).fields
            f9 == JsonField(raw_data, 9)
            f10 == JsonField(raw_data, 10)
        IN  /\ Truthy(parsed_pub)
            /\ parsed_pub.pdfUrls = IF f9.exc = "none" THEN f9.v ELSE EmptyList
            /\ parsed_pub.metadata = IF f10.exc = "none" THEN f10.v ELSE EmptyObject
            /\ parsed_pub.publicationId = fields[1]
            /\ parsed_pub.timestamp = fields[2]
            /\ parsed_pub.date = [year |-> fields[3], month |-> fields[4], day |-> fields[5]]

\* field 10 does not parse, field 9 does: metadata is {} and pdfUrls is the
\* parsed array
C9_Witness ==
    /\ Decoded
    /\ NumFields(raw_data) >= 11
    /\ JsonField(raw_data, 10).exc # "none"
    /\ JsonField(raw_data, 9).exc = "none"
    /\ parsed_pub.metadata = EmptyObject
    /\ parsed_pub.pdfUrls # EmptyList
    /\ parsed_pub.pdfUrls.t = "arr"

\* C10: when a relatedPublications or childrenPublication field holds a list
\* of strings, the expanded field is exactly the in-order sequence of the
\* decodings of the elements that decode; an element whose decode fails is
\* dropped, never raises out of get_data_by_id, and changes no other field.
C10_ExpansionKeepsDecodedInOrder ==
    \A k \in 1..Len(calls) :
        LET header == store.metadata.header
            sort_id == calls[k].sort_id
        IN  /\ ~Returned(k) => calls[k].exc \in {"Exception", "JSONDecodeError"}
                                 /\ calls[k].fetched # <<>>
            /\ Returned(k) =>
                 \A j \in 1..Len(header) :
                    LET raw == FlatValue(store, sort_id, j - 1) IN
                    IF header[j] \in PublicationFields
                    THEN IsList(raw) /\ (\A i \in 1..Len(raw.v) : IsStr(raw.v[i]))
                            => calls[k].result[header[j]] = ExpectedExpansion(raw.v)
                    ELSE calls[k].result[header[j]] = raw

\* a list whose first element fails to decode and whose second decodes
C10_Witness ==
    \E k \in 1..Len(calls) :
        /\ Returned(k)
        /\ store.kids = <<StrValue(ShortRow), StrValue(GoodRow)>>
        /\ calls[k].sort_id % 2 = 0
        /\ calls[k].result["childrenPublication"] = <<ParseRelatedPublication(GoodRow)>>
        /\ calls[k].result["title"] = FlatValue(store, calls[k].sort_id, 2)

HasLoadedMaps == "loaded_maps" \in DOMAIN store.metadata

\* C11: when the store metadata carries loaded_maps, every record field named
\* in loaded_maps is returned as loaded_maps[field].index[raw value], and every
\* other field is returned as its raw value.
C11_MappedFieldsAreDecoded ==
    \A k \in 1..Len(calls) :
        Returned(k) /\ HasLoadedMaps =>
            LET header == store.metadata.header
                maps == store.metadata.loaded_maps
            IN  \A j \in 1..Len(header) :
                   LET raw == FlatValue(store, calls[k].sort_id, j - 1) IN
                   calls[k].result[header[j]] =
                      IF header[j] \in DOMAIN maps
                      THEN maps[header[j]].index[raw.n + 1]
                      ELSE raw

\* the bootstrap ended at the version list: nothing of it reached loaded_db
VersionsFailed == pc = "done" /\ error # "none" /\ "database_version" \notin DOMAIN loaded_db

\* what a successful read of a store holding zero records returns
ZeroRecordsResult == <<>>

\* C12: a bootstrap whose version list is empty, unreachable or malformed
\* fails, fetches nothing after the version list, and gives its caller an
\* outcome that differs from the one of a successful read of a store with
\* zero records.
C12_BootstrapFailureIsDistinct ==
    /\ pc = "done" /\ error = "none" /\ TotalRecords = 0 => result = ZeroRecordsResult
    /\ VersionsFailed =>
         /\ Len(fetch_log) = 1 /\ fetch_log[1].request = "versions"
         /\ result # ZeroRecordsResult

VersionedFetches == {i \in 1..Len(fetch_log) : fetch_log[i].request # "versions"}

\* the entries of the version list that carry the selected version
SelectedEntries ==
    {i \in 1..Len(store.versions) :
        store.versions[i].version = SelectedVersion(store.versions)}

\* C13: the bootstrap selects config.database_version when it is set and
\* otherwise the version of the first entry of the version list, and every
\* metadata, index and data URL carries that version together with the hash
\* of the entry of that version.
C13_UrlsUseSelectedVersion ==
    /\ "database_version" \in DOMAIN loaded_db =>
         /\ loaded_db.database_version = SelectedVersion(store.versions)
         /\ config.database_version = None =>
              loaded_db.database_version = store.versions[1].version
         /\ \E i \in SelectedEntries : loaded_db.database_hash = store.versions[i].hash
    /\ \A u \in VersionedFetches :
         /\ fetch_log[u].version = SelectedVersion(store.versions)
         /\ \E i \in SelectedEntries : fetch_log[u].hash = store.versions[i].hash

\* a store listing two versions: metadata, an index and a chunk were all
\* fetched under the first entry's version and hash
C13_Witness ==
    /\ Len(store.versions) = 2
    /\ store.versions[1] # store.versions[2]
    /\ \E a, b, c \in VersionedFetches :
         /\ fetch_log[a].request = "metadata"
         /\ fetch_log[b].request = "index"
         /\ fetch_log[c].request = "data"
         /\ \A u \in {a, b, c} :
              /\ fetch_log[u].version = store.versions[1].version
              /\ fetch_log[u].hash = store.versions[1].hash

FetchesOf(request) == {i \in 1..Len(fetch_log) : fetch_log[i].request = request}

\* C14: in one session the version list and the metadata are each fetched
\* at most once; no metadata, index or chunk URL is requested before the
\* version list is loaded and no index or chunk URL before the metadata is
\* loaded.
C14_VersionsThenMetadataOnce ==
    /\ Cardinality(FetchesOf("versions")) <= 1
    /\ Cardinality(FetchesOf("metadata")) <= 1
    /\ \A i \in 1..Len(fetch_log) :
         /\ fetch_log[i].request = "versions" => i = 1
         /\ fetch_log[i].request = "metadata" => i = 2
         /\ fetch_log[i].request \in {"metadata", "index", "data"} =>
              /\ fetch_log[1].request = "versions"
              /\ "database_version" \in DOMAIN loaded_db
              /\ "database_hash" \in DOMAIN loaded_db
         /\ fetch_log[i].request \in {"index", "data"} =>
              /\ fetch_log[2].request = "metadata"
              /\ "metadata" \in DOMAIN loaded_db
              /\ loaded_db.metadata = store.metadata

\* a finished read that loaded an index and two chunks after one version
\* list and one metadata fetch
C14_Witness ==
    /\ pc = "done" /\ error = "none"
    /\ Cardinality(FetchesOf("versions")) = 1
    /\ Cardinality(FetchesOf("metadata")) = 1
    /\ Cardinality(FetchesOf("index")) = 1
    /\ Cardinality(FetchesOf("data")) >= 2

\* whether some statement has asked for a lookup in the index of this name
\* when its index.json is fetched: the one reader of a descriptor is the
\* index-chunk branch of get_url (lines 177-179), which nothing calls
IndexRequested(name) == FALSE

\* what the index loop guarantees: one fetch per name of metadata.indexes,
\* descriptors numbered by position
IndexLoadedOnceWithDescriptors ==
    /\ \A i \in FetchesOf("index") :
         /\ fetch_log[i].index \in Range(store.metadata.indexes)
         /\ \A j \in FetchesOf("index") : i # j => fetch_log[i].index # fetch_log[j].index
    /\ "indexes" \in DOMAIN loaded_db =>
         \A name \in DOMAIN loaded_db.indexes :
            LET index_values == IndexDocument(store, name) IN
            \A p \in 1..Len(index_values) :
               LET d == loaded_db.indexes[name][index_values[p].value] IN
               /\ d.index_value_id = p - 1
               /\ d.number_of_chunks = Len(index_values[p].first_sort_id_per_chunk)

\* C15: index.json of an index name is fetched only once that index has
\* been requested, at most once per session and only for names listed in
\* metadata.indexes; the descriptor stored for each value has index_value_id
\* equal to its position in the fetched array and number_of_chunks equal to
\* the length of first_sort_id_per_chunk.
C15_IndexLoadedLazilyOnce ==
    /\ \A i \in FetchesOf("index") : IndexRequested(fetch_log[i].index)
    /\ IndexLoadedOnceWithDescriptors

FetchesOfChunk(c) == {i \in DataFetches : fetch_log[i].chunk = c}

RecordOfStore(sort_id) ==
    LET header == store.metadata.header IN
    [f \in Range(header) \cup {IdField} |->
        IF f = IdField THEN sort_id
        ELSE LET raw == FlatValue(store, sort_id, LastIndexOf(header, f) - 1) IN
             IF f \in PublicationFields /\ IsList(raw)
             THEN ExpectedExpansion(SelectSeq(raw.v, IsStr))
             ELSE raw]

\* C17: for a fixed store, get_data_by_id(sort_id) returns the same record
\* whether its chunk is fetched or taken from the cache and whatever ids
\* were resolved before: two calls for one id return equal records, and
\* each record is the one the store alone determines.
C17_AssemblyIndependentOfHistory ==
    /\ \A k, l \in 1..Len(calls) :
         Returned(k) /\ Returned(l) /\ calls[k].sort_id = calls[l].sort_id
            => calls[k].result = calls[l].result
    /\ \A k \in 1..Len(calls) :
         Returned(k) => calls[k].result = RecordOfStore(calls[k].sort_id)

\* an id resolved with a fetch, then an id of another chunk, then the first
\* id again from the cache, with the same record
C17_Witness ==
    /\ Len(calls) = 3
    /\ Returned(1) /\ Returned(2) /\ Returned(3)
    /\ calls[1].sort_id = calls[3].sort_id
    /\ ChunkId(calls[2].sort_id, store.metadata.chunk_size)
         # ChunkId(calls[1].sort_id, store.metadata.chunk_size)
    /\ Len(calls[1].fetched) = 1
    /\ Len(calls[2].fetched) = 1
    /\ calls[3].fetched = <<>>
    /\ calls[3].result = calls[1].result

ChunksFetched == {fetch_log[i].chunk : i \in DataFetches}

\* the chunks that hold the records 0 .. n - 1
ChunksCovering(n) ==
    0..(((n + store.metadata.chunk_size - 1) \div store.metadata.chunk_size) - 1)

\* the sort ids of the releases of the requested type
MatchIds == {i \in 0..(TotalRecords - 1) : store.rows[i + 1][1] = IntValue(PubType(update_type))}

\* the number of leading records that have to be read to find db_amount
\* releases of the requested type (all of them when there are fewer)
RecordsNeeded ==
    IF db_amount = 0 THEN 0
    ELSE IF Cardinality(MatchIds) < db_amount THEN TotalRecords
    ELSE 1 + CHOOSE i \in MatchIds : Cardinality({j \in MatchIds : j <= i}) = db_amount

\* C18: a read that ends without error has fetched exactly the chunks
\* 0 .. ceil(min(n, total_records) / chunk_size) - 1, n being the
\* amount_to_fetch handed to _fetch_foe_db_data, and
\* load_publications_from_db(amount_to_fetch = k) fetches no chunk beyond
\* those that hold the records needed to produce its k publications.
C18_FetchesOnlyCoveringChunks ==
    /\ pc \in {"done", "convert", "loaded"} /\ error = "none" =>
         ChunksFetched = ChunksCovering(IF Min(amount_to_fetch, TotalRecords) < 0 THEN 0
                                        ELSE Min(amount_to_fetch, TotalRecords))
    /\ pc = "loaded" /\ error = "none" =>
         ChunksFetched \subseteq ChunksCovering(RecordsNeeded)

ValidRelease(release) == ParseDbPublication(update_type, release).exc = "none"

\* the publications of the releases of a batch that convert, in order
ValidPublications(releases) ==
    LET valid == SelectSeq(releases, ValidRelease) IN
    [i \in 1..Len(valid) |-> ParseDbPublication(update_type, valid[i]).v]

\* C19: one bad item never aborts a batch: a release of the store batch
\* that fails to convert is skipped, load_publications_from_db raises
\* nothing and returns the publications of all other releases of the batch.
C19_BadItemIsSkipped ==
    pc = "loaded" =>
        /\ load_error = "none"
        /\ publications = ValidPublications(matching_releases)

TitleRejected ==
    constructed.exc = "ValidationError" /\ constructed.field = "web_title"

\* C20: constructing a Publication raises ValidationError with field
\* web_title exactly when the length of the title is below 3 or above 500
\* (2 and 501 fail, 3 and 500 pass), and no Publication with a title of
\* such a length is ever returned.
C20_TitleLengthBounds ==
    pc = "constructed" =>
        /\ web_title.t = "str" =>
             /\ TitleRejected <=> (web_title.len < 3 \/ web_title.len > 500)
             /\ web_title.len \in {2, 501} => TitleRejected
             /\ web_title.len \in {3, 500} => ~TitleRejected
             /\ TitleRejected => constructed.val = web_title
        /\ constructed.exc = "none" =>
             /\ constructed.v.web_title = web_title
             /\ web_title.t = "str"
             /\ web_title.len >= 3 /\ web_title.len <= 500

\* the title of 501 characters of the repository's test, with a good URL and
\* the current time as date, is refused
C20_Witness ==
    /\ pc = "constructed"
    /\ web_title = TitleOfLength(501)
    /\ web_url = StrValue(U_Valid)
    /\ published_at = DateAt(now)
    /\ related_urls = ListValue(<<>>)
    /\ TitleRejected

DateRejected ==
    constructed.exc = "ValidationError" /\ constructed.field = "published_at"

\* C21: with a valid title, constructing a Publication is refused for its
\* date (ValidationError with field published_at) exactly when published_at
\* lies before the fixed epoch 2000-01-01 or after now plus one day: now + 2
\* days is refused, and every date from the epoch up to now + 1 day is
\* accepted, however long the process has run since the import.
C21_DateBetweenEpochAndTomorrow ==
    pc = "constructed" /\ ValidateTitle(web_title) = Valid /\ published_at.t = "datetime" =>
        /\ DateRejected <=>
             (published_at.at < Epoch \/ published_at.at > now + 1 * TicksPerDay)
        /\ published_at.at = now + 2 * TicksPerDay => DateRejected

Rejected(field) == constructed.exc = "ValidationError" /\ constructed.field = field

LacksSchemeOrHost(url) == url.t = "str" /\ ~HasSchemeAndNetloc(UrlParse(url.v))

TitleInBounds == web_title.t = "str" /\ web_title.len >= 3 /\ web_title.len <= 500

DateInBounds == ValidateDate(published_at, import_time, now) = Valid

UrlAbsolute == web_url.t = "str" /\ HasSchemeAndNetloc(UrlParse(web_url.v))

FirstLacking(list) ==
    list[CHOOSE i \in 1..Len(list) :
             LacksSchemeOrHost(list[i]) /\ \A k \in 1..(i - 1) : ~LacksSchemeOrHost(list[k])]

\* C22: constructing a Publication whose web_url lacks a scheme or a host,
\* or one of whose related_urls lacks one, raises ValidationError naming the
\* offending field and value; the checks run in the order title, date, url,
\* related_urls and the first that fails is the one reported.
C22_UrlChecksAndOrder ==
    pc = "constructed" =>
        /\ LacksSchemeOrHost(web_url) \/
           (related_urls.t = "list" /\ \E i \in 1..Len(related_urls.v) :
                                           LacksSchemeOrHost(related_urls.v[i]))
             => constructed.exc = "ValidationError"
        /\ ~TitleInBounds => Rejected("web_title")
        /\ TitleInBounds /\ ~DateInBounds => Rejected("published_at")
        /\ TitleInBounds /\ DateInBounds /\ ~UrlAbsolute =>
             Rejected("web_url") /\ constructed.val = web_url
        /\ TitleInBounds /\ DateInBounds /\ UrlAbsolute =>
             /\ related_urls.t # "list" =>
                  Rejected("related_urls") /\ constructed.val = related_urls
             /\ related_urls.t = "list" /\ Len(related_urls.v) > 50 =>
                  Rejected("related_urls") /\ constructed.val = IntValue(Len(related_urls.v))
             /\ related_urls.t = "list" /\ Len(related_urls.v) <= 50
                  /\ (\A i \in 1..Len(related_urls.v) : related_urls.v[i].t = "str")
                  /\ (\E i \in 1..Len(related_urls.v) : LacksSchemeOrHost(related_urls.v[i])) =>
                  Rejected("related_urls") /\ constructed.val = FirstLacking(related_urls.v)

\* a date too far in the future together with a URL without scheme and a
\* related URL without scheme: the date is the error reported
C22_Witness ==
    /\ pc = "constructed"
    /\ TitleInBounds
    /\ published_at = DateAt(now + 2 * TicksPerDay)
    /\ web_url = StrValue(U_NoScheme)
    /\ related_urls = ListValue(<<StrValue(U_Valid), StrValue(U_NoScheme)>>)
    /\ Rejected("published_at")

Attempts == {i \in 1..Len(request_log) : request_log[i].e # "wait"}

Succeeded(i) == request_log[i].e = "request" /\ request_log[i].status = expected

RequestSafety ==
    /\ \A i \in Attempts : Succeeded(i) => i = Len(request_log) /\ pc = "returned"
    /\ pc = "returned" =>
         /\ response.exc = "none"
         /\ response.v.status_code = expected
         /\ request_log # <<>> /\ Succeeded(Len(request_log))
    /\ pc = "raised" =>
         /\ response.exc = "TooManyRetries"
         /\ \A i \in Attempts : ~Succeeded(i)
    /\ Cardinality(Attempts) <= RETRY_LIMIT + 1

\* C23: BaseScraper._request always terminates: it returns the first
\* response whose status is the expected one and sends no request after it;
\* if every attempt fails, by RequestException or by unexpected status in
\* any mix, it raises TooManyRetries after a bounded number of attempts.
C23_RequestTerminates ==
    /\ []RequestSafety
    /\ <>(pc \in {"returned", "raised"})

\* TooManyRetries after attempts that failed in both ways
C23_Witness ==
    /\ pc = "raised"
    /\ response.exc = "TooManyRetries"
    /\ \E i \in Attempts : request_log[i].e = "exception"
    /\ \E i \in Attempts : request_log[i].e = "request"

\* C29: when every attempt fails, _request sends exactly RETRY_LIMIT (5)
\* requests before it raises TooManyRetries, and it waits (retry_wait) only
\* between two consecutive attempts.
C29_ExactlyRetryLimitRequests ==
    pc = "raised" =>
        /\ Cardinality(Attempts) = 5
        /\ \A i \in 1..Len(request_log) :
             request_log[i].e = "wait" => i > 1 /\ i < Len(request_log)

GoodAttempt(i) ==
    /\ request_log[i].e = "get"
    /\ request_log[i].status = 200
    /\ request_log[i].content # <<>>

\* C24: load_page_content makes at most 3 GET attempts per URL, retries both
\* after a response that is not OK or empty and after a transport error,
\* returns the body of the first successful attempt without a further
\* request, and raises a terminal error once all 3 attempts have failed.
C24_ThreeAttemptsWithRetry ==
    /\ Len(request_log) <= 3
    /\ \A i \in 1..Len(request_log) :
         GoodAttempt(i) => i = Len(request_log) /\ pc = "returned"
    /\ pc = "returned" =>
         /\ response.exc = "none"
         /\ request_log # <<>> /\ GoodAttempt(Len(request_log))
         /\ response.v = request_log[Len(request_log)].content
    /\ pc = "raised" =>
         /\ response.exc # "none"
         /\ Len(request_log) = 3
         /\ \A i \in 1..3 : ~GoodAttempt(i)

\* text is raw without its leading and trailing blanks
IsStripOf(text, raw) ==
    /\ text # <<>> => text[1] # " " /\ text[Len(text)] # " "
    /\ \E i \in 0..Len(raw) :
         /\ i + Len(text) <= Len(raw)
         /\ SubSeq(raw, i + 1, i + Len(text)) = text
         /\ \A k \in 1..Len(raw) : (k <= i \/ k > i + Len(text)) => raw[k] = " "

StrippedOf(raw) ==
    CHOOSE text \in {SubSeq(raw, i, j) : i \in 1..(Len(raw) + 1), j \in 0..Len(raw)} :
        IsStripOf(text, raw)

\* an entry that has title, link and published, a date that parses, an
\* http(s) link, and whose publication passes the validation
Qualifies(entry) ==
    /\ {"title", "link", "published"} \subseteq DOMAIN entry
    /\ Strptime(entry.published).exc = "none"
    /\ IsHttp(entry.link)
    /\ Len(StrippedOf(entry.title)) >= 3 /\ Len(StrippedOf(entry.title)) <= 500
    /\ ValidateDate(Strptime(entry.published).v, import_time, now) = Valid
    /\ ValidateUrl(StrValue(entry.link)) = Valid
    /\ ValidateRelatedUrls(ListValue(EnclosureUrls(entry))) = Valid

PublicationsMatch(found, entries) ==
    /\ Len(found) = Len(entries)
    /\ \A k \in 1..Len(entries) :
         /\ found[k].web_title.text = StrippedOf(entries[k].title)
         /\ found[k].web_url = StrValue(entries[k].link)
         /\ found[k].published_at = Strptime(entries[k].published).v

\* C25: parse_rss_articles raises ParserException when the feed has no
\* entries or when no entry yields a valid Publication; otherwise it returns,
\* in feed order, exactly one Publication per entry that has title, link and
\* published, a parseable date, an http(s) link and passes validation, with
\* web_title equal to the stripped title of the entry.
C25_RssEntriesToPublications ==
    pc = "parsed" =>
        /\ feed = <<>> => articles.exc = "ParserException"
        /\ SelectSeq(feed, Qualifies) = <<>> => articles.exc = "ParserException"
        /\ SelectSeq(feed, Qualifies) # <<>> =>
             /\ articles.exc = "none"
             /\ PublicationsMatch(articles.v, SelectSeq(feed, Qualifies))

\* a feed of an entry whose stripped title is too short followed by an
\* entry with blanks around its title: one publication, titled abc
C25_Witness ==
    /\ pc = "parsed"
    /\ Len(feed) = 2
    /\ feed[1].title = <<"a", "b", " ">>
    /\ feed[2].title = <<" ", "a", "b", "c", " ">>
    /\ articles.exc = "none"
    /\ Len(articles.v) = 1
    /\ articles.v[1].web_title.text = <<"a", "b", "c">>

\* text is url up to its first question mark
IsQueryStripped(text, url) ==
    /\ \A k \in 1..Len(text) : text[k] # "?"
    /\ \/ text = url
       \/ Len(url) > Len(text) /\ SubSeq(url, 1, Len(text)) = text /\ url[Len(text) + 1] = "?"

HasEnMarker(text) ==
    \E i \in 1..Len(text) :
        i + 3 <= Len(text) /\ text[i] = "." /\ text[i + 1] = "e" /\ text[i + 2] = "n"
                           /\ text[i + 3] = "."

\* C26: _filter_related_urls returns a duplicate-free collection holding
\* exactly the query-stripped forms (the text before the first '?') of the
\* input URLs whose stripped form contains '.en.'; two inputs that differ
\* only in their query string yield one output, and the filter applied to
\* its own output changes nothing.
C26_FilterStripsDedupesIdempotent ==
    /\ pc \in {"filtered", "refiltered"} =>
         /\ \A i, j \in 1..Len(filtered) : filtered[i] = filtered[j] => i = j
         /\ \A k \in 1..Len(filtered) :
              /\ HasEnMarker(filtered[k])
              /\ \E i \in 1..Len(urls) : IsQueryStripped(filtered[k], urls[i])
         /\ \A i \in 1..Len(urls) :
              \A text \in {SubSeq(urls[i], 1, n) : n \in 0..Len(urls[i])} :
                  IsQueryStripped(text, urls[i]) /\ HasEnMarker(text) =>
                      \E k \in 1..Len(filtered) : filtered[k] = text
    /\ pc = "refiltered" =>
         /\ Len(filtered) = Len(urls)
         /\ Range(filtered) = Range(urls)

\* the same URL without and with a query string, and one without the
\* marker: one output
C26_Witness ==
    /\ pc = "filtered"
    /\ urls = <<F_En \o <<"?", "1">>, <<"a", ".", "d", "e", ".">>, F_En>>
    /\ filtered = <<F_En>>

TypesOf(releases) == {releases[i]["type"].n : i \in 1..Len(releases)}

\* C27: load_publications_from_db selects by content type: called with
\* RegUpdateTypes.REGULATION it returns only store records of type 18
\* (Letters to MEPs), called with RegUpdateTypes.NEWS only records of type 1
\* (press releases).
C27_SelectsByContentType ==
    pc \in {"convert", "loaded"} =>
        /\ update_type = REGULATION => TypesOf(matching_releases) \subseteq {18}
        /\ update_type = NEWS => TypesOf(matching_releases) \subseteq {1}

IsRequestedType(release) == release["type"] = IntValue(PubType(update_type))

FirstMatching ==
    SubSeq(SelectSeq(result, IsRequestedType), 1,
           Min(db_amount, Len(SelectSeq(result, IsRequestedType))))

\* C28: for every amount_to_fetch >= 0, _load_publications_db returns at
\* most amount_to_fetch publications (none when it is 0): those of the first
\* min(amount_to_fetch, number of matching records) records of the
\* requested type among the fetched records, in ascending sort_id order.
C28_AtMostAmountPublications ==
    /\ pc \in {"convert", "loaded"} =>
         /\ matching_releases = FirstMatching
         /\ \A i, j \in 1..Len(matching_releases) :
              i < j => matching_releases[i][IdField] < matching_releases[j][IdField]
    /\ pc = "loaded" /\ load_error = "none" =>
         /\ Len(publications) <= db_amount
         /\ Len(publications) = Len(FirstMatching)
         /\ db_amount = 0 => publications = <<>>

CompleteList ==
    /\ Len(result) = Min(amount_to_fetch, TotalRecords)
    /\ \A i \in 1..Len(result) : result[i] = RecordOfStore(i - 1)

\* C30: the result of _fetch_foe_db_data is all-or-nothing: the complete
\* list of min(amount_to_fetch, total_records) records or the empty list,
\* never a proper non-empty prefix; a failure of any fetch (version list,
\* metadata, an index document, a chunk) or of assembling a record discards
\* every record already resolved in the call, and the function never raises:
\* every failure ends the call with the empty list as its result.
C30_ResultIsAllOrNothing ==
    /\ pc = "done" => result = <<>> \/ CompleteList
    /\ error # "none" => pc = "done" /\ result = <<>>
    /\ pc # "done" => result = <<>>

\* a chunk fetch fails after records were resolved: nothing is returned
C30_Witness ==
    /\ pc = "done"
    /\ error # "none"
    /\ Len(all_items) >= 2
    /\ fetch_log[Len(fetch_log)].request = "data"
    /\ result = <<>>

====
